---- MODULE Spec2Model ----
(***************************************************************************)
(* A model of the file-based work-item pipeline of the AI-employee vault:  *)
(* the approval store (backend/mcp_servers/approval.py), the email MCP     *)
(* tools (backend/mcp_servers/email_server.py), the LinkedIn poster        *)
(* (backend/actions/linkedin_poster.py) and the polling watchers           *)
(* (backend/watchers/*.py).                                                *)
(*                                                                         *)
(* Frontmatter values are YAML strings; timestamps are naturals ordered as *)
(* their ISO-8601 strings are, 0 standing for an absent field (the ""      *)
(* default of dict.get, least of all strings).                             *)
(***************************************************************************)
EXTENDS Integers, Sequences, FiniteSets, TLC

VARIABLES
    clock,           \* wall clock, whole seconds (time.time(), now_iso())
    ticks,           \* how often the clock has been advanced by the environment
    actions_log,     \* vault/Logs/actions/<date>.json: the entries, in order
    errors_log,      \* vault/Logs/errors/<date>.json: the entries, in order
    approved,        \* vault/Approved/: file name -> frontmatter, or NoFile
    done,            \* vault/Done/: file name -> frontmatter, or NoFile
    lastFind,        \* the latest find_approval call on the present Approved/
    lastConsume,     \* how the latest consume_approval call ended
    DEV_MODE,        \* email_server.DEV_MODE
    calls,           \* the email tool calls in flight, per caller
    ret,             \* what the latest tool call to return returned
    ncalls,          \* tool calls started so far
    send_timestamps, \* RateLimiter._send_timestamps
    gmail_sent,      \* the sends the Gmail collaborator has performed
    w_kind,          \* which watcher class the watcher process runs
    w_pc,            \* where the watcher process is in BaseWatcher.run
    w_dry_run,       \* the watcher's dry_run
    w_max_results,   \* gmail_config["max_results"], the page size of the list call
    surface,         \* what the external surface shows, in the order listed
    items,           \* the list check_for_updates returned
    idx,             \* position of the for loop over items
    processed_ids,   \* self._processed_ids: fingerprint -> processed_at, 0 absent
    last_cleanup,    \* self._last_cleanup, 0 for None
    consecutive_errors, \* self._consecutive_errors
    ledger_file,     \* vault/Logs/processed_*.json on disk
    needs_action,    \* vault/Needs_Action/: the work-item files
    cycles,          \* poll cycles started so far
    kills,           \* process kills so far
    fails,           \* failed fetches so far
    history,         \* per poll cycle: what it returned and how it ended
    create_result,   \* how the latest create_action_file call ended
    p_pc,            \* where the poster is in process_approved_posts
    p_dry_run,       \* the poster's dry_run
    p_dev_mode,      \* the poster's dev_mode
    posts,           \* the list find_approved_posts returned
    p_idx,           \* position of the for loop over posts
    p_text,          \* the frontmatter and post_text read for the post being published
    p_cycles,        \* process_approved_posts calls so far
    published,       \* what has been published on the LinkedIn feed
    p_writes,        \* how often a human has written a file in Approved/
    frac,            \* the sub-second part of time.time(), in 1/Resolution s
    last_check,      \* what the latest RateLimiter.check() call returned
    r_wrapper,       \* which retry wrapper runs: the email client's or the watcher's
    r_pc,            \* where the wrapper is: in its for loop, or done
    r_script,        \* what the wrapped call does on its successive invocations
    r_attempt,       \* the loop variable `attempt`
    r_calls,         \* invocations of the wrapped call so far
    r_sleeps,        \* the delays passed to time.sleep, in order
    r_reauths,       \* re-authentications so far
    r_last_error,    \* last_error
    r_result,        \* what the wrapper returned or raised
    k_kind,          \* which watcher module's _classify_priority is called
    k_text,          \* its `text` argument, as the words it holds in order
    k_keywords,      \* its `keywords` argument
    k_result,        \* the (priority, matched keyword) pair it returned
    b_kind,          \* which browser watcher runs the poll cycle
    b_pc,            \* which scan of check_for_updates comes next
    b_page,          \* the page the latest navigation has loaded
    b_states,        \* the scans that reached _check_session_state, and what it returned
    b_items,         \* the items the scans of the cycle have returned
    l_pc,            \* per logging process: where it is in log_action
    l_data,          \* per logging process: the `data` it has loaded
    l_count,         \* log_action calls started so far
    s_kind,          \* which browser watcher owns the session
    s_pc,            \* where its poll loop is: between cycles, or between the scans
    s_handle,        \* self._context / self._page: "none", "live", or "dead"
    s_polls,         \* poll cycles started so far
    s_deaths,        \* how often the page or context has died
    s_launches,      \* _launch_browser calls so far
    s_errors,        \* self._consecutive_errors
    x_target,        \* which list a scan looks for: "notifications" or "messages"
    x_probes,        \* what each selector of the strategy list finds, in list order
    x_used           \* the strategy the scan settled on and the elements it holds

timeVars == <<clock, ticks>>

logVars == <<actions_log, errors_log>>

approvalVars == <<approved, done, lastFind, lastConsume>>

emailVars == <<DEV_MODE, calls, ret, ncalls, send_timestamps, gmail_sent>>

watcherProc == <<w_kind, w_pc, w_dry_run, items, idx, processed_ids,
                 last_cleanup, consecutive_errors>>

watcherVars == <<watcherProc, w_max_results, surface, ledger_file,
                 needs_action, cycles, kills, fails, history, create_result>>

posterVars == <<p_pc, p_dry_run, p_dev_mode, posts, p_idx, p_text, p_cycles,
                published, p_writes>>

\* The exact clock reading and the rate limiter driven on its own.
limiterVars == <<frac, last_check>>

\* One run of a retry wrapper.
retryVars == <<r_wrapper, r_pc, r_script, r_attempt, r_calls, r_sleeps,
               r_reauths, r_last_error, r_result>>

\* One call of _classify_priority.
classifyVars == <<k_kind, k_text, k_keywords, k_result>>

\* Functions and detectors driven on their own.
\* One poll cycle of a browser watcher (LinkedIn, WhatsApp).
browserVars == <<b_kind, b_pc, b_page, b_states, b_items>>

writerVars == <<l_pc, l_data, l_count>>

sessionVars == <<s_kind, s_pc, s_handle, s_polls, s_deaths, s_launches,
                 s_errors>>

strategyVars == <<x_target, x_probes, x_used>>

unitVars == <<classifyVars, browserVars, writerVars, sessionVars,
              strategyVars>>

vars == <<timeVars, logVars, approvalVars, emailVars, watcherVars, posterVars,
          limiterVars, retryVars, unitVars>>

\* What the approval store's own actions leave alone.
outsideApproval == <<timeVars, logVars, emailVars, watcherVars, posterVars,
                     limiterVars, retryVars, unitVars>>

----------------------------------------------------------------------------
(* Bounds *)

\* Number of file names the human can use in Approved/.
MaxFiles == 2

\* Email tool calls the assistant makes in one server run.
MaxCalls == 2

\* Clock advances the environment makes in one run.
MaxTicks == 1

\* email.sends_per_hour of config/rate_limits.json in the modelled setup.
max_sends == 1

\* Candidates the external surface shows.
MaxItems == 2

\* Process kills in one behaviour.
MaxKills == 1

\* Failed fetches in one behaviour.
MaxFails == 1

\* Poll cycles one watcher behaviour starts.
MaxCycles == 2

\* Runs of process_approved_posts in one poster behaviour.
MaxPosterRuns == 2

\* Files a human writes in Approved/ while the poster is in use.
MaxWrites == 2

\* Parts of a second the clock reading time.time() resolves.
Resolution == 2

\* Steps of a behaviour that drives the rate limiter on its own.
MaxLimiterSteps == 5

\* Invocations of the wrapped call whose outcome a retry scenario fixes.
ScriptLen == 4

\* Words in a text handed to _classify_priority.
MaxWords == 2

\* Cards, threads or unread chats on one page.
MaxCards == 2

\* A configured page size smaller than the number of messages listed.
SmallPage == 1

----------------------------------------------------------------------------
(* Frontmatter *)

NoFile == [type |-> "none"]

\* File names, in the order sorted(glob("*.md")) lists them.
FileNames == 1..MaxFiles

\* str.lower() on the strings of the model.
Lower(s) ==
    CASE s = "John@X.com" -> "john@x.com"
      [] s = "T1" -> "t1"
      [] s = "URGENT" -> "urgent"
      [] OTHER -> s

\* (approved_at, created) pairs a human-written approval file carries.
TsPairs == {<<0, 0>>, <<1, 3>>, <<2, 0>>, <<0, 3>>}

\* The approval files a human (or an upstream planner) puts in Approved/.
ApprovalFiles ==
    { [type |-> "email_send", status |-> st, to |-> t, thread_id |-> "",
       approved_at |-> p[1], created |-> p[2], completed_at |-> 0,
       result |-> ""] :
        st \in {"approved", "pending"},
        t \in {"john@x.com", "John@X.com", "jane@x.com"},
        p \in TsPairs }
    \cup
    { [type |-> "email_reply", status |-> st, to |-> "", thread_id |-> t,
       approved_at |-> p[1], created |-> p[2], completed_at |-> 0,
       result |-> ""] :
        st \in {"approved", "pending"},
        t \in {"t1"},
        p \in TsPairs }

\* frontmatter.get(field, "")
Get(fm, field) ==
    CASE field = "to" -> fm.to
      [] field = "thread_id" -> fm.thread_id
      [] OTHER -> ""

----------------------------------------------------------------------------
(* approval.py: find_approval *)

NoPath == 0

\* The type and match-field checks without the status.
FileMatchesNoStatus(fm, action_type, match_fields) ==
    /\ fm # NoFile
    /\ fm.type = action_type
    /\ \A i \in 1..Len(match_fields) :
          Lower(Get(fm, match_fields[i][1])) = Lower(match_fields[i][2])

\* The type and status checks without the match fields.
FileMatchesNoFields(fm, action_type, match_fields) ==
    /\ fm # NoFile
    /\ fm.type = action_type
    /\ fm.status = "approved"

\* One file against the action type, the status and the match fields
\* (a sequence of <<field, expected>> pairs, the **match_fields).
FileMatches(fm, action_type, match_fields) ==
    /\ fm # NoFile
    /\ fm.type = action_type
    /\ fm.status = "approved"
    /\ \A i \in 1..Len(match_fields) :
          Lower(Get(fm, match_fields[i][1])) = Lower(match_fields[i][2])

\* The matches list: names in sorted order whose file matches.
RECURSIVE MatchesFrom(_, _, _, _)
MatchesFrom(dir, n, action_type, match_fields) ==
    IF n > MaxFiles THEN <<>>
    ELSE (IF FileMatches(dir[n], action_type, match_fields)
          THEN <<n>> ELSE <<>>)
         \o MatchesFrom(dir, n + 1, action_type, match_fields)

ApprovedAtOnlyKey(fm) == fm.approved_at

\* m.get("approved_at", m.get("created", ""))
SortKey(fm) == IF fm.approved_at # 0 THEN fm.approved_at ELSE fm.created

\* list.sort(key=_sort_key, reverse=True): stable, descending.
RECURSIVE InsertDesc(_, _, _)
InsertDesc(dir, sorted, n) ==
    IF sorted = <<>> THEN <<n>>
    ELSE IF SortKey(dir[Head(sorted)]) >= SortKey(dir[n])
         THEN <<Head(sorted)>> \o InsertDesc(dir, Tail(sorted), n)
         ELSE <<n>> \o sorted

RECURSIVE SortDesc(_, _)
SortDesc(dir, s) ==
    IF s = <<>> THEN <<>>
    ELSE InsertDesc(dir, SortDesc(dir, SubSeq(s, 1, Len(s) - 1)), s[Len(s)])

\* The path of the file find_approval returns, NoPath for None.
find_approval(dir, action_type, match_fields) ==
    LET matches == MatchesFrom(dir, 1, action_type, match_fields)
    IN  IF matches = <<>> THEN NoPath
        ELSE Head(SortDesc(dir, matches))

----------------------------------------------------------------------------
(* approval.py: consume_approval *)

\* update_frontmatter(src, {"status": "done", "completed_at": now_iso()})
Stamp(fm, updates) ==
    [fm EXCEPT !.status = updates.status,
               !.completed_at = updates.completed_at,
               !.result = updates.result]

\* consume_approval(path): stamp, then shutil.move to Done/<same name>.
\* A missing source makes update_frontmatter raise FileNotFoundError,
\* which is caught, and then shutil.move raise it, which is not.
consume_approval(path) ==
    IF approved[path] = NoFile
    THEN /\ lastConsume' = "FileNotFoundError"
         /\ UNCHANGED <<approved, done>>
    ELSE /\ done' = [done EXCEPT ![path] =
                        Stamp(approved[path],
                              [status |-> "done", completed_at |-> clock,
                               result |-> approved[path].result])]
         /\ approved' = [approved EXCEPT ![path] = NoFile]
         /\ lastConsume' = "moved"

----------------------------------------------------------------------------
(* find_approval applied to every Approved/ a human can have written.      *)

NoFind == [called |-> FALSE, action_type |-> "", match_fields |-> <<>>,
           path |-> NoPath]

Callers == 1..2

NoCall == [pc |-> "idle", tool |-> "", target |-> "", path |-> NoPath,
           fm |-> NoFile, had_match |-> FALSE]

\* Fingerprints (Gmail message ids, LinkedIn dedup keys) of the surface.
Keys == 1..MaxItems

NoIds == [k \in Keys |-> 0]

\* processed_*.json: missing, unparseable, or the saved data.
AbsentLedger == [state |-> "absent", processed_ids |-> NoIds, last_cleanup |-> 0]

\* A torn ledger that would read back as holding every fingerprint.
EveryIdLedger ==
    [state |-> "ok", processed_ids |-> [k \in Keys |-> 1], last_cleanup |-> 1]

CorruptLedger == [state |-> "corrupt", processed_ids |-> NoIds, last_cleanup |-> 0]

NoCreate == [tag |-> "none", in_ledger |-> FALSE, same_run |-> FALSE]

NoRet == [tag |-> "none", tool |-> "", target |-> "", had_match |-> FALSE]

\* No check() call since the limiter's state or the time last changed.
NoCheck == [called |-> FALSE, allowed |-> FALSE, wait |-> 0, before |-> <<>>]

\* A fresh vault and a server that has just started.
InitCommon ==
    /\ clock = 1
    /\ ticks = 0
    /\ actions_log = <<>>
    /\ errors_log = <<>>
    /\ approved = [n \in FileNames |-> NoFile]
    /\ done = [n \in FileNames |-> NoFile]
    /\ lastFind = NoFind
    /\ lastConsume = "none"
    /\ calls = [c \in Callers |-> NoCall]
    /\ ret = NoRet
    /\ ncalls = 0
    /\ send_timestamps = <<>>
    /\ gmail_sent = <<>>
    /\ frac = 0
    /\ last_check = NoCheck

NoError == "none"

NoResult == [kind |-> "none", value |-> "none"]

\* No retry wrapper is running.
RetryOff ==
    /\ r_wrapper = "off"
    /\ r_pc = "off"
    /\ r_script = <<>>
    /\ r_attempt = 0
    /\ r_calls = 0
    /\ r_sleeps = <<>>
    /\ r_reauths = 0
    /\ r_last_error = NoError
    /\ r_result = NoResult

\* _classify_priority is not being called.
ClassifyOff ==
    /\ k_kind = "none"
    /\ k_text = <<>>
    /\ k_keywords = <<>>
    /\ k_result = NoResult

NoPage == [features |-> {}, cards |-> <<>>]

\* No browser watcher is polling.
BrowserOff ==
    /\ b_kind = "none"
    /\ b_pc = "off"
    /\ b_page = NoPage
    /\ b_states = <<>>
    /\ b_items = <<>>

\* The processes that write the audit log: the watchers, the poster and the
\* email server, each a process of its own.
Writers == {"gmail_watcher", "linkedin_poster", "email_mcp"}

\* No process is inside log_action.
WritersOff ==
    /\ l_pc = [p \in Writers |-> "off"]
    /\ l_data = [p \in Writers |-> <<>>]
    /\ l_count = 0

\* No browser session exists.
SessionOff ==
    /\ s_kind = "none"
    /\ s_pc = "off"
    /\ s_handle = "none"
    /\ s_polls = 0
    /\ s_deaths = 0
    /\ s_launches = 0
    /\ s_errors = 0

NoStrategy == [used |-> 0, count |-> 0, chosen |-> FALSE]

\* No scan is selecting its elements.
StrategyOff ==
    /\ x_target = "none"
    /\ x_probes = <<>>
    /\ x_used = NoStrategy

UnitsOff ==
    ClassifyOff /\ BrowserOff /\ WritersOff /\ SessionOff /\ StrategyOff

\* No watcher process has been started.
WatcherMemory ==
    /\ items = <<>>
    /\ idx = 0
    /\ processed_ids = NoIds
    /\ last_cleanup = 0
    /\ consecutive_errors = 0

WatcherDisk ==
    /\ ledger_file = AbsentLedger
    /\ needs_action = {}
    /\ cycles = 0
    /\ kills = 0
    /\ fails = 0
    /\ history = <<>>
    /\ create_result = NoCreate

WatcherOff ==
    /\ w_kind = "none"
    /\ w_pc = "off"
    /\ w_dry_run = FALSE
    /\ w_max_results = 0
    /\ surface = <<>>
    /\ WatcherMemory
    /\ WatcherDisk

\* No poster process has been started.
PosterOff ==
    /\ p_pc = "off"
    /\ p_dry_run = FALSE
    /\ p_dev_mode = FALSE
    /\ posts = <<>>
    /\ p_idx = 0
    /\ p_text = NoFile
    /\ p_cycles = 0
    /\ published = <<>>
    /\ p_writes = 0

InitFind ==
    /\ InitCommon
    /\ RetryOff
    /\ UnitsOff
    /\ DEV_MODE = FALSE
    /\ WatcherOff
    /\ PosterOff

\* The human approval step: a file appears in (or is rewritten in) Approved/.
HumanWrite(n, fm) ==
    /\ approved[n] # fm
    /\ approved' = [approved EXCEPT ![n] = fm]
    /\ lastFind' = NoFind
    /\ UNCHANGED <<done, lastConsume, outsideApproval>>

\* The requests the email tools make: send_email by recipient,
\* reply_email by thread.
FindInputs ==
    { <<"email_send", <<<<"to", t>>>> >> :
        t \in {"john@x.com", "John@X.com", "jane@x.com"} }
    \cup { <<"email_reply", <<<<"thread_id", t>>>> >> : t \in {"t1", "T1"} }

FindApproval(action_type, match_fields) ==
    /\ lastFind' = [called |-> TRUE, action_type |-> action_type,
                    match_fields |-> match_fields,
                    path |-> find_approval(approved, action_type, match_fields)]
    /\ UNCHANGED <<approved, done, lastConsume, outsideApproval>>

\* The directory is written first, then queried.
FindHumanWrite(n, fm) ==
    /\ lastFind = NoFind
    /\ HumanWrite(n, fm)

NextFind ==
    \/ \E n \in FileNames, fm \in ApprovalFiles : FindHumanWrite(n, fm)
    \/ \E in \in FindInputs : FindApproval(in[1], in[2])

SpecFind == InitFind /\ [][NextFind]_vars

----------------------------------------------------------------------------
(* Claims on find_approval *)

\* The timestamp a file is ranked by: approved_at, or created without it.
RankTs(fm) == IF fm.approved_at = 0 THEN fm.created ELSE fm.approved_at

\* What the claims require of a file for a request.
Satisfies(fm, action_type, match_fields) ==
    /\ fm # NoFile
    /\ fm.type = action_type
    /\ fm.status = "approved"
    /\ \A i \in 1..Len(match_fields) :
          LET field == match_fields[i][1]
              expected == match_fields[i][2]
              actual == IF field = "to" THEN fm.to ELSE fm.thread_id
          IN  Lower(actual) = Lower(expected)

\* C9: find_approval returns a file only if its type is the requested
\* type, its status is exactly "approved" and every supplied match field
\* equals the file's value ignoring case; it returns no match exactly when
\* no file of Approved/ satisfies all of these.
C9_FindApprovalExact ==
    lastFind.called =>
        /\ lastFind.path # NoPath =>
              Satisfies(approved[lastFind.path], lastFind.action_type,
                        lastFind.match_fields)
        /\ lastFind.path = NoPath =>
              \A n \in FileNames :
                 ~Satisfies(approved[n], lastFind.action_type,
                            lastFind.match_fields)

\* A call that returned a file whose value differs in case from the
\* request, while another file of the right type was passed over.
C9_Witness ==
    /\ lastFind.called
    /\ lastFind.path # NoPath
    /\ approved[lastFind.path].to # lastFind.match_fields[1][2]
    /\ lastFind.match_fields[1][1] = "to"
    /\ \E n \in FileNames :
          /\ approved[n] # NoFile
          /\ approved[n].type = lastFind.action_type
          /\ approved[n].status = "pending"

----------------------------------------------------------------------------
(* logging_utils.py: log_action, and the entries the components write *)

LogEntry(actor, action_type, result) ==
    [actor |-> actor, action_type |-> action_type, result |-> result]

\* log_action(log_dir, entry): the entry is appended to the day's array.
log_action(log, entry) == Append(log, entry)

\* The audit entry written once the effect has been performed.
SuccessEntry(actor, action_type) == LogEntry(actor, action_type, "success")

\* A dry-run branch that logs what the real branch logs.
LoggedAsSuccess(actor, action_type) == SuccessEntry(actor, action_type)

\* The audit entry of a dry-run branch.
DryRunEntry(actor, action_type) == LogEntry(actor, action_type, "dry_run")

\* email_server._log_tool_action
_log_tool_action(action_type, result) ==
    actions_log' = log_action(actions_log, LogEntry("email_mcp", action_type, result))

\* log_action calls the processes make in one behaviour.
MaxLogs == 3

\* The processes log into the same day's file, each a call at a time.
InitLog ==
    /\ InitCommon
    /\ RetryOff
    /\ ClassifyOff
    /\ BrowserOff
    /\ SessionOff
    /\ StrategyOff
    /\ DEV_MODE = FALSE
    /\ WatcherOff
    /\ PosterOff
    /\ l_pc = [p \in Writers |-> "idle"]
    /\ l_data = [p \in Writers |-> <<>>]
    /\ l_count = 0

outsideLog == <<timeVars, errors_log, approvalVars, emailVars, watcherVars,
                posterVars, limiterVars, retryVars, classifyVars, browserVars,
                sessionVars, strategyVars>>

\* log_action up to `data = json.loads(log_file.read_text())`, or the empty
\* structure when the day's file does not exist yet.
LogLoad(p) ==
    /\ l_pc[p] = "idle"
    /\ l_count < MaxLogs
    /\ l_count' = l_count + 1
    /\ l_data' = [l_data EXCEPT ![p] = actions_log]
    /\ l_pc' = [l_pc EXCEPT ![p] = "loaded"]
    /\ UNCHANGED <<actions_log, outsideLog>>

\* data["entries"].append(entry); log_file.write_text(json.dumps(data))
LogWrite(p, result) ==
    /\ l_pc[p] = "loaded"
    /\ actions_log' = log_action(l_data[p], LogEntry(p, "action", result))
    /\ l_data' = [l_data EXCEPT ![p] = <<>>]
    /\ l_pc' = [l_pc EXCEPT ![p] = "idle"]
    /\ UNCHANGED <<l_count, outsideLog>>

NextLog ==
    \/ \E p \in Writers : LogLoad(p)
    \/ \E p \in Writers, result \in {"success", "failure"} : LogWrite(p, result)

SpecLog == InitLog /\ [][NextLog]_vars

----------------------------------------------------------------------------
(* rate_limiter.py *)

window_seconds == 3600

\* time.time(): the clock reading, in 1/Resolution seconds.
time_time == clock * Resolution + frac

\* self.window_seconds in the unit of time_time.
Window == window_seconds * Resolution

\* A limiter that counts the send when it is checked, before it is made.
RecordEarly(stamps, now) == Append(stamps, now)

\* _prune_expired: drop the leading timestamps older than the window.
RECURSIVE _prune_expired(_, _)
_prune_expired(stamps, now) ==
    IF stamps # <<>> /\ Head(stamps) < now - Window
    THEN _prune_expired(Tail(stamps), now)
    ELSE stamps

\* int(x) of a time x given in 1/Resolution seconds: truncation toward zero.
IntSeconds(x) == IF x >= 0 THEN x \div Resolution ELSE 0 - ((0 - x) \div Resolution)

\* math.ceil(x) of a time x given in 1/Resolution seconds.
CeilSeconds(x) == 0 - ((0 - x) \div Resolution)

Max(a, b) == IF a > b THEN a ELSE b

Min(a, b) == IF a < b THEN a ELSE b

\* A wait that rounds the remaining time up.
CeilWait(stamps, now) == Max(CeilSeconds(Head(stamps) + Window - now), 1)

\* The wait check() returns when it denies, on the pruned deque:
\* max(int(oldest + window_seconds - time.time()) + 1, 1).
check_wait(stamps, now) ==
    Max(IntSeconds(Head(stamps) + Window - now) + 1, 1)

\* A limit that admits one send more.
CheckUpTo(stamps) == Len(stamps) <= max_sends

\* check(), on the pruned deque: allowed iff fewer than max_sends remain.
check(stamps) == Len(stamps) < max_sends

\* record_send()
record_send(stamps, now) == Append(stamps, now)

----------------------------------------------------------------------------
(* email_server.py: send_email and reply_email *)

\* The approval files of the email flow.
EmailFiles ==
    { fm \in ApprovalFiles :
        /\ fm.approved_at = 2 /\ fm.created = 0
        /\ \/ fm.to = "John@X.com"
           \/ fm.type = "email_reply" /\ fm.status = "approved" }

\* Tool arguments: <<tool, target, other arguments valid>>.  The target is
\* `to` for send_email and `thread_id` for reply_email.
ToolInputs ==
    { <<"send_email", t, TRUE>> : t \in {"john@x.com", "jane@x.com", "john"} }
    \cup { <<"reply_email", "t1", TRUE>>, <<"reply_email", "t1", FALSE>> }

ActionType(tool) == IF tool = "send_email" THEN "email_send" ELSE "email_reply"

MatchFields(tool, target) ==
    IF tool = "send_email" THEN << <<"to", target>> >>
    ELSE << <<"thread_id", target>> >>

\* `"@" not in to` / `not thread_id or not message_id`
InvalidInput(tool, target, ok) ==
    IF tool = "send_email" THEN target = "john"
    ELSE target = "" \/ ~ok

InitEmail ==
    /\ InitCommon
    /\ RetryOff
    /\ UnitsOff
    /\ DEV_MODE \in BOOLEAN
    /\ WatcherOff
    /\ PosterOff

Returns(c, tag, tool, target, had) ==
    ret' = [tag |-> tag, tool |-> tool, target |-> target, had_match |-> had]

\* The tool up to its `await asyncio.to_thread(...)`: validation, the
\* DEV_MODE check, the approval check and the rate-limit check.
ToolBegin(c, tool, target, ok) ==
    LET path == find_approval(approved, ActionType(tool), MatchFields(tool, target))
        had == \E n \in FileNames :
                  Satisfies(approved[n], ActionType(tool), MatchFields(tool, target))
        pruned == _prune_expired(send_timestamps, time_time)
    IN  /\ calls[c].pc = "idle"
        /\ \A c2 \in Callers : c2 < c => calls[c2].pc # "idle"
        /\ ncalls < MaxCalls
        /\ ncalls' = ncalls + 1
        /\ IF InvalidInput(tool, target, ok)
           THEN /\ _log_tool_action(tool, "error")
                /\ Returns(c, "invalid", tool, target, had)
                /\ UNCHANGED <<calls, send_timestamps>>
           ELSE IF DEV_MODE
           THEN /\ _log_tool_action(tool, "dev_mode")
                /\ Returns(c, "dev_mode", tool, target, had)
                /\ UNCHANGED <<calls, send_timestamps>>
           ELSE IF path = NoPath
           THEN /\ _log_tool_action(tool, "rejected")
                /\ Returns(c, "rejected", tool, target, had)
                /\ UNCHANGED <<calls, send_timestamps>>
           ELSE IF ~check(pruned)
           THEN /\ _log_tool_action(tool, "rate_limited")
                /\ Returns(c, "rate_limited", tool, target, had)
                /\ send_timestamps' = pruned
                /\ UNCHANGED calls
           ELSE /\ calls' = [calls EXCEPT ![c] =
                                [pc |-> "sending", tool |-> tool,
                                 target |-> target, path |-> path,
                                 fm |-> approved[path], had_match |-> had]]
                /\ send_timestamps' = pruned
                /\ UNCHANGED <<actions_log, ret>>
        /\ UNCHANGED <<timeVars, errors_log, approvalVars, DEV_MODE, gmail_sent,
                       watcherVars, posterVars, limiterVars, retryVars, unitVars>>

SendOutcomes == {"ok", "HttpError", "FileNotFoundError", "OSError"}

\* A failed send that takes the approval with it all the same.
SendFailedConsumes(call) ==
    /\ consume_approval(call.path)
    /\ UNCHANGED <<gmail_sent, send_timestamps>>

\* The send raised: the statements after the await are skipped, the limiter
\* and the approval file are as they were.
SendFailed(call) ==
    UNCHANGED <<gmail_sent, send_timestamps, approved, done, lastConsume>>

\* The tool from the return of app.gmail.send_message / reply_to_thread on:
\* record_send, consume_approval, the audit entry, and the except clauses.
ToolFinish(c, outcome) ==
    LET call == calls[c]
    IN  /\ call.pc = "sending"
        /\ calls' = [calls EXCEPT ![c] = NoCall]
        /\ IF outcome = "ok"
           THEN /\ gmail_sent' = Append(gmail_sent,
                                        [tool |-> call.tool, target |-> call.target,
                                         approval |-> call.fm,
                                         path |-> call.path, at |-> time_time])
                /\ send_timestamps' = record_send(send_timestamps, time_time)
                /\ consume_approval(call.path)
                /\ IF approved[call.path] = NoFile
                   THEN /\ Returns(c, "auth_error", call.tool, call.target, call.had_match)
                        /\ UNCHANGED actions_log
                   ELSE /\ _log_tool_action(call.tool, "success")
                        /\ Returns(c, "success", call.tool, call.target, call.had_match)
           ELSE /\ SendFailed(call)
                /\ IF outcome = "HttpError"
                   THEN /\ _log_tool_action(call.tool, "error")
                        /\ Returns(c, "http_error", call.tool, call.target, call.had_match)
                   ELSE IF outcome = "FileNotFoundError"
                   THEN /\ Returns(c, "auth_error", call.tool, call.target, call.had_match)
                        /\ UNCHANGED actions_log
                   ELSE /\ Returns(c, "raised", call.tool, call.target, call.had_match)
                        /\ UNCHANGED actions_log
        /\ UNCHANGED <<timeVars, errors_log, lastFind, DEV_MODE, ncalls,
                       watcherVars, posterVars, limiterVars, retryVars, unitVars>>

\* The human approval step while the server runs.
EmailHumanWrite(n, fm) == HumanWrite(n, fm)

\* Time passes: a second, or more than the rate limiter's window.
Tick(d) ==
    /\ ticks < MaxTicks
    /\ ticks' = ticks + 1
    /\ clock' = clock + d
    /\ UNCHANGED <<logVars, approvalVars, emailVars, watcherVars, posterVars,
                   limiterVars, retryVars, unitVars>>

NextEmail ==
    \/ \E n \in FileNames, fm \in EmailFiles : EmailHumanWrite(n, fm)
    \/ \E c \in Callers, in \in ToolInputs : ToolBegin(c, in[1], in[2], in[3])
    \/ \E c \in Callers, o \in SendOutcomes : ToolFinish(c, o)

SpecEmail == InitEmail /\ [][NextEmail]_vars

----------------------------------------------------------------------------
(* rate_limiter.py: a RateLimiter driven on its own, at the clock's        *)
(* resolution.                                                              *)

InitLimiter ==
    /\ InitCommon
    /\ RetryOff
    /\ UnitsOff
    /\ DEV_MODE = FALSE
    /\ WatcherOff
    /\ PosterOff

outsideLimiter == <<logVars, approvalVars, DEV_MODE, calls, ret, ncalls,
                    gmail_sent, watcherVars, posterVars, retryVars, unitVars>>

\* Time passes by d parts of a second.
LimiterAdvance(d) ==
    /\ ticks < MaxLimiterSteps
    /\ ticks' = ticks + 1
    /\ clock' = (time_time + d) \div Resolution
    /\ frac' = (time_time + d) % Resolution
    /\ last_check' = NoCheck
    /\ UNCHANGED <<send_timestamps, outsideLimiter>>

\* limiter.record_send()
LimiterRecord ==
    /\ Len(send_timestamps) <= max_sends
    /\ send_timestamps' = record_send(send_timestamps, time_time)
    /\ last_check' = NoCheck
    /\ UNCHANGED <<timeVars, frac, outsideLimiter>>

\* limiter.check(): prune, then (True, 0) or (False, wait).
LimiterCheck ==
    LET pruned == _prune_expired(send_timestamps, time_time)
    IN  /\ ~last_check.called
        /\ send_timestamps' = pruned
        /\ last_check' =
              [called |-> TRUE,
               allowed |-> check(pruned),
               wait |-> IF check(pruned) THEN 0
                        ELSE check_wait(pruned, time_time),
               before |-> send_timestamps]
        /\ UNCHANGED <<timeVars, frac, outsideLimiter>>

\* A part of a second, a second, or the whole window.
Advances == {1, Resolution, Window}

NextLimiter ==
    \/ \E d \in Advances : LimiterAdvance(d)
    \/ LimiterRecord
    \/ LimiterCheck

SpecLimiter == InitLimiter /\ [][NextLimiter]_vars



----------------------------------------------------------------------------
(* gmail_client.py: _execute_with_retry, and                               *)
(* gmail_watcher.py: _fetch_messages_with_retry                            *)

MAX_RETRIES == 3

INITIAL_BACKOFF == 1

MAX_BACKOFF_SECONDS == 60

\* What one invocation of the wrapped call does: it returns, raises an
\* HttpError with a status, or raises ConnectionError / TimeoutError.  A 401
\* comes with the outcome of the re-authentication that follows it.
Outcomes == {"ok", "401", "401_noauth", "429", "500", "503", "403", "404",
             "network"}

\* exc.resp.status
Status(outcome) == IF outcome = "401_noauth" THEN "401" ELSE outcome

\* RETRYABLE_STATUS_CODES
RETRYABLE_STATUS_CODES == {"429", "500", "503"}

RECURSIVE Pow2(_)
Pow2(n) == IF n = 0 THEN 1 ELSE 2 * Pow2(n - 1)

\* The branch of the try / except an outcome takes in each wrapper.
Handle(wrapper, outcome) ==
    IF outcome = "ok" THEN "return"
    ELSE IF outcome = "network" THEN "backoff"
    ELSE IF Status(outcome) = "401"
         THEN (IF outcome = "401" THEN "reauth" ELSE "reauth_failed")
    ELSE IF wrapper = "client"
         THEN (IF Status(outcome) \in RETRYABLE_STATUS_CODES
               THEN "backoff" ELSE "raise")
    ELSE (IF Status(outcome) = "403" THEN "raise" ELSE "backoff")

\* The delay passed to time.sleep, in seconds; self._backoff_delay is 1.0.
Delay(wrapper, outcome, attempt) ==
    IF wrapper = "watcher" /\ Status(outcome) = "429"
    THEN Min(INITIAL_BACKOFF * Pow2(attempt), MAX_BACKOFF_SECONDS)
    ELSE INITIAL_BACKOFF * Pow2(attempt)

\* A loop in which the turn after a re-authentication repeats the attempt.
SameAttemptAfterReauth(branch, attempt) ==
    IF branch = "reauth" THEN attempt ELSE attempt + 1

\* `continue`, or the end of the except clause: the for loop takes the next
\* value of range(MAX_RETRIES), whichever branch was taken.
NextAttempt(branch, attempt) == attempt + 1

Returned(value) == [kind |-> "returned", value |-> value]

Raised(error) == [kind |-> "raised", value |-> error]

\* A wrapper that gives up quietly.
ExhaustedQuietly(wrapper, last_error) ==
    Returned(IF wrapper = "client" THEN "None" ELSE "[]")

\* After the for loop: `if last_error: raise last_error`, else the
\* wrapper's empty return.
Exhausted(wrapper, last_error) ==
    IF last_error # NoError THEN Raised(last_error)
    ELSE Returned(IF wrapper = "client" THEN "None" ELSE "[]")

InitRetry ==
    /\ InitCommon
    /\ UnitsOff
    /\ DEV_MODE = FALSE
    /\ WatcherOff
    /\ PosterOff
    /\ r_wrapper \in {"client", "watcher"}
    /\ r_pc = "loop"
    /\ r_script \in [1..ScriptLen -> Outcomes]
    /\ r_attempt = 0
    /\ r_calls = 0
    /\ r_sleeps = <<>>
    /\ r_reauths = 0
    /\ r_last_error = NoError
    /\ r_result = NoResult

outsideRetry == <<timeVars, logVars, approvalVars, emailVars, watcherVars,
                  posterVars, limiterVars, unitVars>>

\* One turn of `for attempt in range(MAX_RETRIES)`.
RetryAttempt ==
    LET outcome == r_script[r_calls + 1]
        branch == Handle(r_wrapper, outcome)
    IN  /\ r_pc = "loop"
        /\ r_attempt < MAX_RETRIES
        /\ r_calls < Len(r_script)
        /\ r_calls' = r_calls + 1
        /\ r_last_error' = IF branch = "return" THEN r_last_error
                           ELSE Status(outcome)
        /\ r_reauths' = IF branch = "reauth" THEN r_reauths + 1 ELSE r_reauths
        /\ r_sleeps' = IF branch = "backoff"
                       THEN Append(r_sleeps, Delay(r_wrapper, outcome, r_attempt))
                       ELSE r_sleeps
        /\ IF branch \in {"reauth", "backoff"}
           THEN /\ r_attempt' = NextAttempt(branch, r_attempt)
                /\ UNCHANGED <<r_pc, r_result>>
           ELSE /\ r_pc' = "done"
                /\ r_result' =
                      IF branch = "return" THEN Returned("success")
                      ELSE IF branch = "reauth_failed"
                           THEN Raised("FileNotFoundError")
                      ELSE Raised(Status(outcome))
                /\ UNCHANGED r_attempt
        /\ UNCHANGED <<r_wrapper, r_script, outsideRetry>>

\* The loop has run MAX_RETRIES times.
RetryExhausted ==
    /\ r_pc = "loop"
    /\ r_attempt = MAX_RETRIES
    /\ r_pc' = "done"
    /\ r_result' = Exhausted(r_wrapper, r_last_error)
    /\ UNCHANGED <<r_wrapper, r_script, r_attempt, r_calls, r_sleeps,
                   r_reauths, r_last_error, outsideRetry>>

NextRetry == RetryAttempt \/ RetryExhausted

SpecRetry == InitRetry /\ [][NextRetry]_vars

\* The wrapper is synchronous code: its next statement is executed.
SpecRetryRuns == SpecRetry /\ WF_vars(NextRetry)

----------------------------------------------------------------------------
(* linkedin_watcher.py, whatsapp_watcher.py: _classify_priority *)

DEFAULT_KEYWORDS(kind) ==
    IF kind = "linkedin"
    THEN <<"opportunity", "invoice", "project", "meeting", "urgent",
           "proposal", "partnership", "job">>
    ELSE <<"urgent", "asap", "help", "deadline", "invoice", "payment",
           "meeting", "important">>

HIGH_PRIORITY_KEYWORDS(kind) ==
    IF kind = "linkedin" THEN {"urgent", "invoice", "proposal"}
    ELSE {"urgent", "asap", "critical", "payment", "invoice"}

MEDIUM_PRIORITY_KEYWORDS(kind) ==
    IF kind = "linkedin"
    THEN {"opportunity", "project", "meeting", "job", "partnership"}
    ELSE {"important", "meeting", "deadline", "help"}

\* `kw.lower() in text_lower`, for texts made of whole words.
Contains(text, kw) == \E i \in 1..Len(text) : Lower(text[i]) = Lower(kw)

NoKeyword == "None"

Classified(priority, kw) == [priority |-> priority, keyword |-> kw]

\* The for loop over `keywords` from position i on: the first keyword the
\* text contains decides.
RECURSIVE ClassifyFrom(_, _, _, _)
ClassifyFrom(kind, text, keywords, i) ==
    IF i > Len(keywords) THEN Classified("low", NoKeyword)
    ELSE IF Contains(text, keywords[i])
         THEN IF Lower(keywords[i]) \in HIGH_PRIORITY_KEYWORDS(kind)
              THEN Classified("high", keywords[i])
              ELSE IF Lower(keywords[i]) \in MEDIUM_PRIORITY_KEYWORDS(kind)
              THEN Classified("medium", keywords[i])
              ELSE Classified("low", keywords[i])
    ELSE ClassifyFrom(kind, text, keywords, i + 1)

_classify_priority(kind, text, keywords) == ClassifyFrom(kind, text, keywords, 1)

\* The words a scanned text is made of.
Words == {"URGENT", "invoice", "meeting", "opportunity", "hello"}

Texts == UNION { [1..n -> Words] : n \in 0..MaxWords }

\* The keyword lists a watcher is configured with: its default, or one or
\* two keywords of the operator's.
KeywordLists(kind) ==
    {DEFAULT_KEYWORDS(kind)}
    \cup { <<a>> : a \in {"urgent", "invoice", "meeting", "custom"} }
    \cup { <<a, b>> : a \in {"urgent", "meeting", "custom"},
                      b \in {"invoice", "opportunity", "hello"} }

InitClassify ==
    /\ InitCommon
    /\ RetryOff
    /\ DEV_MODE = FALSE
    /\ WatcherOff
    /\ PosterOff
    /\ BrowserOff
    /\ WritersOff
    /\ SessionOff
    /\ StrategyOff
    /\ k_kind \in {"linkedin", "whatsapp"}
    /\ k_text \in Texts
    /\ k_keywords \in KeywordLists(k_kind)
    /\ k_result = NoResult

outsideClassify == <<timeVars, logVars, approvalVars, emailVars, watcherVars,
                     posterVars, limiterVars, retryVars, browserVars,
                     writerVars, sessionVars, strategyVars>>

Classify ==
    /\ k_result = NoResult
    /\ k_result' = _classify_priority(k_kind, k_text, k_keywords)
    /\ UNCHANGED <<k_kind, k_text, k_keywords, outsideClassify>>

NextClassify == Classify

SpecClassify == InitClassify /\ [][NextClassify]_vars

----------------------------------------------------------------------------
(* watchers: configuration *)

gmail_check_interval == 120

linkedin_check_interval == 300

gmail_retention_days == 30

PROCESSED_IDS_RETENTION_DAYS == 7

max_results == 10

max_cards == 20

cleanup_hours == 24

check_interval(kind) ==
    IF kind = "gmail" THEN gmail_check_interval ELSE linkedin_check_interval

RetentionDays(kind) ==
    IF kind = "gmail" THEN gmail_retention_days ELSE PROCESSED_IDS_RETENTION_DAYS

\* How many entries of the surface one scan looks at.
ScanCap(kind) == IF kind = "gmail" THEN w_max_results ELSE max_cards

Actor(kind) == IF kind = "gmail" THEN "gmail_watcher" ELSE "linkedin_watcher"

DetectedType(kind) ==
    IF kind = "gmail" THEN "email_detected" ELSE "linkedin_detected"

ProcessedType(kind) ==
    IF kind = "gmail" THEN "email_processed" ELSE "linkedin_processed"

----------------------------------------------------------------------------
(* linkedin_watcher.py, whatsapp_watcher.py: one poll cycle in the browser *)

max_threads == 15

\* What the selectors of WhatsApp Web's detector can find on a page.
WhatsAppFeatures == {"chat_list", "qr_canvas", "qr_fallback", "phone_alert",
                     "startup"}

\* What the URL and the selectors of LinkedIn's detector can find: the
\* URL holds /checkpoint/challenge, /login, /authwall or a path of the
\* signed-in pages; the page holds #captcha-internal, a login form element,
\* an element of AUTHENTICATED_SELECTORS.
LinkedInFeatures == {"checkpoint_url", "login_url", "authwall_url",
                     "captcha_dom", "login_form", "family_url",
                     "strict_selector"}

\* The lookups of each detector, any of which the browser can fail with an
\* exception (a detached page, a timeout).  "count" stands for the three
\* query_selector_all calls of the element count.
Lookups(kind) ==
    IF kind = "whatsapp"
    THEN {"chat_loaded", "phone_alert", "qr_canvas", "qr_fallback", "startup"}
    ELSE {"captcha_dom", "login_form", "strict_selector", "count"}

\* if total > 40
element_threshold == 40

\* page.query_selector(CHAT_LOADED_SELECTOR) is not None: the combined
\* selector lists the chat-list selectors and three QR-code selectors, the
\* first of which matches every canvas SELECTORS["qr_code"] matches.
_is_chat_loaded(features) ==
    features \cap {"chat_list", "qr_canvas", "qr_fallback"} # {}

\* The lookup returns an element.
Found(page, what) == what \in page.features /\ what \notin page.raising

\* An element count that passes on the threshold itself.
AtLeastThreshold(total) == total >= element_threshold

\* len(buttons) + len(links) + len(imgs) > 40
OverThreshold(total) == total > element_threshold

\* LinkedIn's _is_authenticated: off the signed-in pages False; then the
\* strict selectors, each in a try; then the element count, in a try.
_is_authenticated(page) ==
    /\ "family_url" \in page.features
    /\ \/ Found(page, "strict_selector")
       \/ "count" \notin page.raising /\ OverThreshold(page.total)

\* WhatsApp's detector: its lookups are not inside a try, so the first one
\* that raises ends the detector with the exception ("raised").
WhatsAppState(page) ==
    IF "chat_loaded" \in page.raising THEN "raised"
    ELSE IF _is_chat_loaded(page.features)
         THEN (IF "phone_alert" \in page.raising THEN "raised"
               ELSE IF "phone_alert" \in page.features THEN "phone_disconnected"
               ELSE "ready")
    ELSE IF "qr_canvas" \in page.raising THEN "raised"
    ELSE IF "qr_canvas" \in page.features THEN "qr_code"
    ELSE IF "qr_fallback" \in page.raising THEN "raised"
    ELSE IF "qr_fallback" \in page.features THEN "qr_code"
    ELSE IF "startup" \in page.raising THEN "raised"
    ELSE IF "startup" \in page.features THEN "loading"
    ELSE "unknown"

\* LinkedIn's detector: the URL first, then the DOM lookups, each in a try
\* whose except clause passes, then _is_authenticated.
LinkedInState(page) ==
    IF "checkpoint_url" \in page.features THEN "captcha"
    ELSE IF {"login_url", "authwall_url"} \cap page.features # {}
         THEN "login_required"
    ELSE IF Found(page, "captcha_dom") THEN "captcha"
    ELSE IF Found(page, "login_form") THEN "login_required"
    ELSE IF _is_authenticated(page) THEN "ready"
    ELSE "unknown"

_check_session_state(kind, page) ==
    IF kind = "whatsapp" THEN WhatsAppState(page) ELSE LinkedInState(page)

\* The session states on which a scan logs an error and returns [].
SessionErrors(kind) ==
    IF kind = "whatsapp" THEN {"qr_code", "phone_disconnected"}
    ELSE {"login_required", "captcha"}

\* Whether a scan goes on to extraction in a session state.
Scans(kind, state) ==
    IF kind = "whatsapp" THEN state = "ready"
    ELSE state \notin SessionErrors(kind)

\* How reading one field of a card ends: its text, no such element, or an
\* exception of the browser (a detached element, a timeout).
FieldStatus == {"ok", "absent", "raises"}

\* A notification card, a message thread or an unread chat: whether its
\* text holds a keyword, and how reading its time and its sender ends.  At
\* most one field of a card fails to be read.
Cards ==
    { [kw |-> FALSE, time |-> "ok", sender |-> "ok"] }
    \cup { [kw |-> TRUE, time |-> t, sender |-> "ok"] : t \in FieldStatus }
    \cup { [kw |-> TRUE, time |-> "ok", sender |-> a] : a \in FieldStatus }

CardLists == UNION { [1..n -> Cards] : n \in 0..MaxCards }

\* cards[:20], threads[:15]; every unread chat.
Capped(scan, cards) ==
    IF scan = "notifications" THEN SubSeq(cards, 1, Min(Len(cards), max_cards))
    ELSE IF scan = "messages" THEN SubSeq(cards, 1, Min(Len(cards), max_threads))
    ELSE cards

\* `actor or "LinkedIn"`, `lines[0][:60]`, `author_el ... else chat_name`
DefaultSender(scan) ==
    IF scan = "notifications" THEN "LinkedIn"
    ELSE IF scan = "messages" THEN "line"
    ELSE "chat"

\* The body of the try block of the for loop: <<>> when an exception is
\* caught or the card is skipped, else the item appended.
ExtractCard(scan, cards, i) ==
    LET card == cards[i]
    IN  IF card.time = "raises" \/ card.sender = "raises" THEN <<>>
        ELSE IF ~card.kw THEN <<>>
        ELSE << [scan |-> scan, card |-> i,
                 sender |-> IF card.sender = "ok" THEN "name"
                            ELSE DefaultSender(scan),
                 time |-> IF card.time = "ok" THEN "time" ELSE ""] >>

RECURSIVE ExtractCards(_, _, _)
ExtractCards(scan, cards, i) ==
    IF i > Len(cards) THEN <<>>
    ELSE ExtractCard(scan, cards, i) \o ExtractCards(scan, cards, i + 1)

ErrorEntry(actor, error) ==
    [actor |-> actor, action_type |-> "error", result |-> "failure",
     error |-> error]

BrowserActor(kind) ==
    IF kind = "whatsapp" THEN "whatsapp_watcher" ELSE "linkedin_watcher"

\* The pages a navigation can load.
Pages(kind) ==
    { [features |-> f, cards |-> cs, raising |-> {}, total |-> 0] :
        f \in (IF kind = "whatsapp" THEN SUBSET WhatsAppFeatures
               ELSE { {}, {"family_url", "strict_selector"}, {"checkpoint_url"},
                      {"login_url", "login_form"},
                      {"captcha_dom", "family_url", "strict_selector"},
                      {"login_form"} }),
        cs \in CardLists }

InitBrowser ==
    /\ InitCommon
    /\ RetryOff
    /\ DEV_MODE = FALSE
    /\ WatcherOff
    /\ PosterOff
    /\ ClassifyOff
    /\ WritersOff
    /\ SessionOff
    /\ StrategyOff
    /\ b_kind \in {"linkedin", "whatsapp"}
    /\ b_pc = (IF b_kind = "linkedin" THEN "notifications" ELSE "scan")
    /\ b_page = NoPage
    /\ b_states = <<>>
    /\ b_items = <<>>

outsideBrowser == <<timeVars, actions_log, approvalVars, emailVars, watcherVars,
                    posterVars, limiterVars, retryVars, classifyVars,
                    writerVars, sessionVars, strategyVars>>

\* _scan_notifications, _scan_messages or _scan_unread_messages on the page
\* its navigation loads.
Scan(scan, page) ==
    LET state == _check_session_state(b_kind, page)
    IN  /\ b_page' = page
        /\ b_states' = Append(b_states, [scan |-> scan, state |-> state])
        /\ errors_log' =
              IF state \in SessionErrors(b_kind)
              THEN log_action(errors_log,
                              ErrorEntry(BrowserActor(b_kind), state))
              ELSE errors_log
        /\ b_items' =
              IF Scans(b_kind, state)
              THEN b_items \o ExtractCards(scan, Capped(scan, page.cards), 1)
              ELSE b_items

\* The scan raises (the navigation fails, the browser has gone): LinkedIn's
\* check_for_updates notes it at debug level, WhatsApp's logs scan_failed.
ScanRaises ==
    /\ errors_log' =
          IF b_kind = "whatsapp"
          THEN log_action(errors_log,
                          ErrorEntry(BrowserActor(b_kind), "scan_failed"))
          ELSE errors_log
    /\ UNCHANGED <<b_page, b_states, b_items>>

ScanNotifications(page, raises) ==
    /\ b_kind = "linkedin"
    /\ b_pc = "notifications"
    /\ b_pc' = "messages"
    /\ IF raises THEN ScanRaises ELSE Scan("notifications", page)
    /\ UNCHANGED <<b_kind, outsideBrowser>>

ScanMessages(page, raises) ==
    /\ b_kind = "linkedin"
    /\ b_pc = "messages"
    /\ b_pc' = "done"
    /\ IF raises THEN ScanRaises ELSE Scan("messages", page)
    /\ UNCHANGED <<b_kind, outsideBrowser>>

ScanUnreadMessages(page, raises) ==
    /\ b_kind = "whatsapp"
    /\ b_pc = "scan"
    /\ b_pc' = "done"
    /\ IF raises THEN ScanRaises ELSE Scan("unread", page)
    /\ UNCHANGED <<b_kind, outsideBrowser>>

NextBrowser ==
    \/ \E page \in Pages(b_kind), raises \in BOOLEAN : ScanNotifications(page, raises)
    \/ \E page \in Pages(b_kind), raises \in BOOLEAN : ScanMessages(page, raises)
    \/ \E page \in Pages(b_kind), raises \in BOOLEAN : ScanUnreadMessages(page, raises)

SpecBrowser == InitBrowser /\ [][NextBrowser]_vars

----------------------------------------------------------------------------
(* _check_session_state on every page the browser can show *)

\* Element counts on either side of the threshold.
Totals == {0, element_threshold, element_threshold + 1}

DetectPages(kind) ==
    { [features |-> f, cards |-> <<>>, raising |-> r, total |-> n] :
        f \in (IF kind = "whatsapp" THEN SUBSET WhatsAppFeatures
               ELSE SUBSET LinkedInFeatures),
        r \in SUBSET Lookups(kind),
        n \in (IF kind = "whatsapp" THEN {0} ELSE Totals) }

InitDetect ==
    /\ InitCommon
    /\ RetryOff
    /\ DEV_MODE = FALSE
    /\ WatcherOff
    /\ PosterOff
    /\ ClassifyOff
    /\ WritersOff
    /\ SessionOff
    /\ StrategyOff
    /\ b_kind \in {"linkedin", "whatsapp"}
    /\ b_pc = "detect"
    /\ b_page \in DetectPages(b_kind)
    /\ b_states = <<>>
    /\ b_items = <<>>

\* state = await self._check_session_state()
Detect ==
    /\ b_pc = "detect"
    /\ b_pc' = "detected"
    /\ b_states' = <<[scan |-> "detect",
                      state |-> _check_session_state(b_kind, b_page)]>>
    /\ UNCHANGED <<b_kind, b_page, b_items, errors_log, outsideBrowser>>

NextDetect == Detect

SpecDetect == InitDetect /\ [][NextDetect]_vars

----------------------------------------------------------------------------
(* linkedin_watcher.py: the selector strategies of the two scans *)

\* Selectors of a strategy list that are modelled.
MaxStrategies == 3

\* if 0 < len(threads) <= 50
max_matches == 50

\* What query_selector_all does for one selector: it raises, or returns so
\* many elements.
Probes ==
    { [raises |-> TRUE, count |-> 0] }
    \cup { [raises |-> FALSE, count |-> n] :
             n \in {0, 1, max_matches, max_matches + 1} }

\* The test a scan applies to the elements of one selector:
\* _scan_notifications `len(cards) > 0`, _scan_messages
\* `0 < len(threads) <= 50`.
Accepts(target, n) ==
    IF target = "notifications" THEN n > 0
    ELSE 0 < n /\ n <= max_matches

\* The for loop over the selectors: an exception passes to the next
\* selector, the first accepted list ends the loop.
RECURSIVE SelectFrom(_, _, _)
SelectFrom(target, probes, i) ==
    IF i > Len(probes) THEN [used |-> 0, count |-> 0, chosen |-> TRUE]
    ELSE IF ~probes[i].raises /\ Accepts(target, probes[i].count)
         THEN [used |-> i, count |-> probes[i].count, chosen |-> TRUE]
    ELSE SelectFrom(target, probes, i + 1)

InitStrategy ==
    /\ InitCommon
    /\ RetryOff
    /\ DEV_MODE = FALSE
    /\ WatcherOff
    /\ PosterOff
    /\ ClassifyOff
    /\ BrowserOff
    /\ WritersOff
    /\ SessionOff
    /\ x_target \in {"notifications", "messages"}
    /\ x_probes \in [1..MaxStrategies -> Probes]
    /\ x_used = NoStrategy

outsideStrategy == <<timeVars, logVars, approvalVars, emailVars, watcherVars,
                     posterVars, limiterVars, retryVars, classifyVars,
                     browserVars, writerVars, sessionVars>>

\* The scan settles on its elements.
SelectStrategy ==
    /\ ~x_used.chosen
    /\ x_used' = SelectFrom(x_target, x_probes, 1)
    /\ UNCHANGED <<x_target, x_probes, outsideStrategy>>

NextStrategy == SelectStrategy

SpecStrategy == InitStrategy /\ [][NextStrategy]_vars

----------------------------------------------------------------------------
(* linkedin_watcher.py, whatsapp_watcher.py: the life of the browser session *)

\* Poll cycles one behaviour of a browser watcher starts.
MaxPolls == 8

\* Times the page or the context dies under the watcher.
MaxDeaths == 3

\* run() has called _ensure_browser and enters its loop.
InitSession ==
    /\ InitCommon
    /\ RetryOff
    /\ ClassifyOff
    /\ BrowserOff
    /\ WritersOff
    /\ StrategyOff
    /\ DEV_MODE = FALSE
    /\ WatcherOff
    /\ PosterOff
    /\ s_kind \in {"linkedin", "whatsapp"}
    /\ s_pc = "idle"
    /\ s_handle = "live"
    /\ s_polls = 0
    /\ s_deaths = 0
    /\ s_launches = 1
    /\ s_errors = 0

outsideSession == <<timeVars, actions_log, approvalVars, emailVars, watcherVars,
                    posterVars, limiterVars, retryVars, classifyVars, browserVars,
                    writerVars, strategyVars>>

\* _close_browser: the context is closed and both handles are set to None.
_close_browser(handle) == "none"

\* _ensure_browser: launch only when a handle is None.
_ensure_browser(handle) == IF handle = "none" THEN "live" ELSE handle

Launched(before, after) == IF before = "none" /\ after = "live" THEN 1 ELSE 0

\* The browser crashes or its page is closed: the handles of the watcher
\* stay set and every call on them raises.  At least two poll cycles are
\* still to come.
SessionDies ==
    /\ s_handle = "live"
    /\ s_deaths < MaxDeaths
    /\ s_polls + 2 <= MaxPolls
    /\ s_handle' = "dead"
    /\ s_deaths' = s_deaths + 1
    /\ UNCHANGED <<s_kind, s_pc, s_polls, s_launches, s_errors, errors_log,
                   outsideSession>>

\* LinkedIn check_for_updates, first try block: _ensure_browser and
\* _scan_notifications; when the scan raises, _close_browser and
\* _ensure_browser.
LinkedInNotifications ==
    LET ensured == _ensure_browser(s_handle)
        after == IF ensured = "dead"
                 THEN _ensure_browser(_close_browser(ensured))
                 ELSE ensured
    IN  /\ s_kind = "linkedin"
        /\ s_pc = "idle"
        /\ s_polls < MaxPolls
        /\ s_polls' = s_polls + 1
        /\ s_handle' = after
        /\ s_launches' = s_launches + Launched(s_handle, ensured)
                                    + (IF ensured = "dead" THEN 1 ELSE 0)
        /\ s_pc' = "messages"
        /\ UNCHANGED <<s_kind, s_deaths, s_errors, errors_log, outsideSession>>

\* LinkedIn check_for_updates, second try block: _ensure_browser and
\* _scan_messages; an exception of the scan is logged at debug level only.
LinkedInMessages ==
    LET ensured == _ensure_browser(s_handle)
    IN  /\ s_kind = "linkedin"
        /\ s_pc = "messages"
        /\ s_handle' = ensured
        /\ s_launches' = s_launches + Launched(s_handle, ensured)
        /\ s_pc' = "idle"
        /\ UNCHANGED <<s_kind, s_polls, s_deaths, s_errors, errors_log,
                       outsideSession>>

\* WhatsApp check_for_updates: _scan_unread_messages calls _ensure_browser
\* and then the page; an exception is counted and logged, and [] returned.
WhatsAppPoll ==
    LET ensured == _ensure_browser(s_handle)
    IN  /\ s_kind = "whatsapp"
        /\ s_pc = "idle"
        /\ s_polls < MaxPolls
        /\ s_polls' = s_polls + 1
        /\ s_handle' = ensured
        /\ s_launches' = s_launches + Launched(s_handle, ensured)
        /\ IF ensured = "dead"
           THEN /\ s_errors' = s_errors + 1
                /\ errors_log' = log_action(errors_log,
                                     ErrorEntry("whatsapp_watcher", "scan_failed"))
           ELSE /\ s_errors' = 0
                /\ UNCHANGED errors_log
        /\ UNCHANGED <<s_kind, s_pc, s_deaths, outsideSession>>

PollStep == LinkedInNotifications \/ LinkedInMessages \/ WhatsAppPoll

NextSession == SessionDies \/ PollStep

\* The loop of run() goes on: a cycle that can start does start.
SpecSession ==
    /\ InitSession
    /\ [][NextSession]_vars
    /\ WF_vars(PollStep)

----------------------------------------------------------------------------
(* watchers: the external surface *)

Slugs == {"a", "b"}

\* Gmail: the messages the query lists have distinct ids; subject slugs may
\* coincide; `wanted` is false for a sender on the exclusion list (the
\* last message listed, if any).
GmailSurfaces ==
    { s \in [1..MaxItems -> [key : Keys, slug : Slugs, wanted : BOOLEAN]] :
        /\ \A i \in 1..MaxItems : s[i].key = i
        /\ \A i \in 1..(MaxItems - 1) : s[i].wanted
        /\ s[1].slug = "a" }

\* LinkedIn: the dedup key is sender|text[:100]|timestamp, so two cards
\* with the same key have the same sender slug and the same keyword match;
\* `wanted` is false for a card that matches no keyword.
LinkedInCard(k) == [key |-> k, slug |-> "a", wanted |-> k # 2]

LinkedInSurfaces ==
    { s \in [1..MaxItems -> {LinkedInCard(k) : k \in Keys}] : s[1].key = 1 }

----------------------------------------------------------------------------
(* watchers: the processed-ids ledger *)

\* timestamps.is_within_hours
is_within_hours(ts, hours, now) == now - ts <= hours * 3600

\* _load_processed_ids: a missing or unparseable file starts fresh.
_load_processed_ids(file) ==
    IF file.state = "ok"
    THEN [processed_ids |-> file.processed_ids, last_cleanup |-> file.last_cleanup]
    ELSE [processed_ids |-> NoIds, last_cleanup |-> 0]

\* _cleanup_old_ids: at most once a day, drop entries past the retention.
_cleanup_old_ids(kind, ids, lc, now) ==
    IF lc # 0 /\ is_within_hours(lc, cleanup_hours, now)
    THEN [processed_ids |-> ids, last_cleanup |-> lc]
    ELSE [processed_ids |->
              [k \in Keys |->
                  IF ids[k] # 0
                     /\ is_within_hours(ids[k], RetentionDays(kind) * 24, now)
                  THEN ids[k] ELSE 0],
          last_cleanup |-> now]

\* _save_processed_ids: what write_text leaves on disk when it completes.
_save_processed_ids(ids, lc, now) ==
    [state |-> "ok", processed_ids |-> ids,
     last_cleanup |-> IF lc # 0 THEN lc ELSE now]

\* The fingerprints the ledger file holds, as a restart would load them.
PersistedIds ==
    { k \in Keys : _load_processed_ids(ledger_file).processed_ids[k] # 0 }

----------------------------------------------------------------------------
(* watchers: extraction and file names *)

\* An extractor that does not consult the ledger.
ExtractAll(kind, surf, ids) ==
    SelectSeq(SubSeq(surf, 1, Min(Len(surf), ScanCap(kind))),
              LAMBDA it : it.wanted)

\* _fetch_messages / _scan_notifications: the listed entries, in order,
\* that are not in self._processed_ids and pass the sender / keyword filter.
Extract(kind, surf, ids) ==
    SelectSeq(SubSeq(surf, 1, Min(Len(surf), ScanCap(kind))),
              LAMBDA it : ids[it.key] = 0 /\ it.wanted)

\* f"email-{subject_slug}-{timestamp}.md": the slug and the clock second.
FilePath(item, now) == [slug |-> item.slug, ts |-> now]

\* path.exists()
Exists(dir, path) == \E f \in dir : f.slug = path.slug /\ f.ts = path.ts

\* A write that leaves the file incomplete.
TornWrite(dir, file) == dir \cup {[file EXCEPT !.complete = FALSE]}

\* A create_file_with_frontmatter that returns before the content is whole.
ReturnsBeforeWritten(dir, file) == TornWrite(dir, file)

\* create_file_with_frontmatter past its exists() check: the whole content
\* is on disk when write_text returns.
create_file_with_frontmatter(dir, file) == dir \cup {file}


----------------------------------------------------------------------------
(* watchers: BaseWatcher.run, check_for_updates, create_action_file *)

WatcherStarted(kind) ==
    /\ w_kind = kind
    /\ w_pc = "idle"
    /\ w_dry_run \in BOOLEAN
    /\ surface \in (IF kind = "gmail" THEN GmailSurfaces ELSE LinkedInSurfaces)
    /\ WatcherMemory
    /\ WatcherDisk

InitGmail ==
    /\ InitCommon
    /\ RetryOff
    /\ UnitsOff
    /\ DEV_MODE = TRUE
    /\ WatcherStarted("gmail")
    /\ w_max_results = max_results
    /\ PosterOff

InitLinkedIn ==
    /\ InitCommon
    /\ RetryOff
    /\ UnitsOff
    /\ DEV_MODE = TRUE
    /\ WatcherStarted("linkedin")
    /\ w_max_results = max_results
    /\ PosterOff

\* What the watcher's steps leave alone; its configuration is read once,
\* when it is constructed.
outsideWatcher == <<ticks, approvalVars, emailVars, posterVars, limiterVars,
                    retryVars, unitVars, w_max_results>>

SetStatus(h, status) == [h EXCEPT ![Len(h)].status = status]

\* check_for_updates: load the ledger, clean it up, fetch.  A failed fetch
\* returns no items (Gmail also counts and logs the error).  `more` says
\* whether the behaviour follows the endless loop into another cycle.
CheckForUpdates(fetched, more) ==
    LET loaded == _load_processed_ids(ledger_file)
        cleaned == _cleanup_old_ids(w_kind, loaded.processed_ids,
                                    loaded.last_cleanup, clock)
        found == IF fetched
                 THEN Extract(w_kind, surface, cleaned.processed_ids)
                 ELSE <<>>
    IN  /\ w_pc = "idle"
        /\ more
        /\ fetched \/ fails < MaxFails
        /\ cycles' = cycles + 1
        /\ fails' = IF fetched THEN fails ELSE fails + 1
        /\ processed_ids' = cleaned.processed_ids
        /\ last_cleanup' = cleaned.last_cleanup
        /\ items' = found
        /\ idx' = 1
        /\ w_pc' = "loop"
        /\ consecutive_errors' =
              IF fetched
              THEN (IF w_kind = "gmail" \/ found # <<>>
                    THEN 0 ELSE consecutive_errors)
              ELSE (IF w_kind = "gmail"
                    THEN consecutive_errors + 1 ELSE consecutive_errors)
        /\ errors_log' =
              IF ~fetched /\ w_kind = "gmail"
              THEN log_action(errors_log,
                              LogEntry(Actor(w_kind), "error", "failure"))
              ELSE errors_log
        /\ history' = Append(history,
                             [keys |-> {found[i].key : i \in 1..Len(found)},
                              status |-> "running", dry_run |-> w_dry_run])
        /\ UNCHANGED <<clock, actions_log, w_kind, w_dry_run, surface,
                       ledger_file, needs_action, kills, create_result,
                       outsideWatcher>>

\* A loop that an exception of the cycle leaves.
Uncaught == "dead"

\* run(): `except Exception` around the body of the cycle logs the
\* exception, and the loop goes on to asyncio.sleep.
Caught == "sleep"

\* create_action_file up to the return of create_file_with_frontmatter:
\* the dry-run branch, the FileExistsError, or the file on disk.
CreateActionFile ==
    LET item == items[idx]
        path == FilePath(item, clock)
        file == [slug |-> path.slug, ts |-> path.ts, key |-> item.key,
                 complete |-> TRUE, cycle |-> cycles, run |-> kills]
    IN  /\ w_pc = "loop"
        /\ idx <= Len(items)
        /\ IF w_dry_run
           THEN /\ actions_log' =
                      log_action(actions_log,
                                 DryRunEntry(Actor(w_kind), DetectedType(w_kind)))
                /\ idx' = idx + 1
                /\ create_result' = [tag |-> "dry_run",
                                     in_ledger |-> item.key \in PersistedIds,
                                     same_run |-> FALSE]
                /\ UNCHANGED <<w_pc, needs_action, history>>
           ELSE IF Exists(needs_action, path)
           THEN /\ w_pc' = Caught
                /\ history' = SetStatus(history, "aborted")
                /\ create_result' =
                      [tag |-> "FileExistsError",
                       in_ledger |-> item.key \in PersistedIds,
                       same_run |-> \E f \in needs_action :
                                       /\ f.slug = path.slug /\ f.ts = path.ts
                                       /\ f.run = kills]
                /\ UNCHANGED <<actions_log, idx, needs_action>>
           ELSE /\ needs_action' = create_file_with_frontmatter(needs_action, file)
                /\ w_pc' = "record"
                /\ create_result' = [tag |-> "created",
                                     in_ledger |-> item.key \in PersistedIds,
                                     same_run |-> FALSE]
                /\ UNCHANGED <<actions_log, idx, history>>
        /\ UNCHANGED <<clock, errors_log, w_kind, w_dry_run, surface, items,
                       processed_ids, last_cleanup, consecutive_errors,
                       ledger_file, cycles, kills, fails, outsideWatcher>>

\* self._processed_ids[key] = now_iso(); self._save_processed_ids()
RecordAndSave ==
    LET ids == [processed_ids EXCEPT ![items[idx].key] = clock]
    IN  /\ w_pc = "record"
        /\ processed_ids' = ids
        /\ ledger_file' = _save_processed_ids(ids, last_cleanup, clock)
        /\ w_pc' = "log"
        /\ UNCHANGED <<clock, logVars, w_kind, w_dry_run, surface, items, idx,
                       last_cleanup, consecutive_errors, needs_action, cycles,
                       kills, fails, history, create_result, outsideWatcher>>

\* The closing log_action of create_action_file, and the loop's next turn.
LogSuccess ==
    /\ w_pc = "log"
    /\ actions_log' = log_action(actions_log,
                                 SuccessEntry(Actor(w_kind), ProcessedType(w_kind)))
    /\ idx' = idx + 1
    /\ w_pc' = "loop"
    /\ UNCHANGED <<clock, errors_log, w_kind, w_dry_run, surface, items,
                   processed_ids, last_cleanup, consecutive_errors,
                   ledger_file, needs_action, cycles, kills, fails, history,
                   create_result, outsideWatcher>>

\* The end of the cycle, after the last item or after the except clause:
\* asyncio.sleep(self.check_interval).
Sleep ==
    /\ \/ w_pc = "loop" /\ idx > Len(items)
       \/ w_pc = "sleep"
    /\ w_pc' = "idle"
    /\ clock' = clock + check_interval(w_kind)
    /\ history' = IF w_pc = "loop" THEN SetStatus(history, "complete")
                  ELSE history
    /\ UNCHANGED <<logVars, w_kind, w_dry_run, surface, items, idx,
                   processed_ids, last_cleanup, consecutive_errors,
                   ledger_file, needs_action, cycles, kills, fails,
                   create_result, outsideWatcher>>

\* The process is killed.  A kill inside write_text leaves what was being
\* written incomplete (torn): the work-item file, or the ledger file.
Kill(torn) ==
    /\ w_pc \notin {"off", "dead"}
    /\ kills < MaxKills
    /\ kills' = kills + 1
    /\ w_pc' = "dead"
    /\ items' = <<>>
    /\ idx' = 0
    /\ processed_ids' = NoIds
    /\ last_cleanup' = 0
    /\ consecutive_errors' = 0
    /\ history' = IF w_pc = "idle" THEN history ELSE SetStatus(history, "killed")
    /\ IF torn
       THEN \/ /\ w_pc = "loop" /\ idx <= Len(items) /\ ~w_dry_run
               /\ ~Exists(needs_action, FilePath(items[idx], clock))
               /\ needs_action' =
                     TornWrite(needs_action,
                               [slug |-> items[idx].slug, ts |-> clock,
                                key |-> items[idx].key, complete |-> TRUE,
                                cycle |-> cycles, run |-> kills])
               /\ UNCHANGED ledger_file
            \/ /\ w_pc = "record"
               /\ ledger_file' = CorruptLedger
               /\ UNCHANGED needs_action
       ELSE UNCHANGED <<needs_action, ledger_file>>
    /\ UNCHANGED <<clock, logVars, w_kind, w_dry_run, surface, cycles, fails,
                   create_result, outsideWatcher>>

\* The operator starts the watcher again, with the DRY_RUN of the environment.
Restart(dry) ==
    /\ w_pc = "dead"
    /\ w_pc' = "idle"
    /\ w_dry_run' = dry
    /\ UNCHANGED <<clock, logVars, w_kind, surface, items, idx, processed_ids,
                   last_cleanup, consecutive_errors, ledger_file, needs_action,
                   cycles, kills, fails, history, create_result,
                   outsideWatcher>>

\* The clock second rolls over while a cycle is under way: before an item
\* is handled, or between its file and its ledger entry.
WatcherTick ==
    /\ \/ w_pc = "loop" /\ idx <= Len(items)
       \/ w_pc = "record"
    /\ Tick(1)

\* One step of the running watcher; `fetches` are the outcomes the fetch
\* of check_for_updates may have (TRUE: it succeeds).
WatcherStep(more, fetches) ==
    \/ \E fetched \in fetches : CheckForUpdates(fetched, more)
    \/ CreateActionFile
    \/ RecordAndSave
    \/ LogSuccess
    \/ Sleep

NextWatcher ==
    \/ WatcherStep(cycles < MaxCycles, BOOLEAN)
    \/ \E torn \in BOOLEAN : Kill(torn)
    \/ \E dry \in BOOLEAN : Restart(dry)
    \/ WatcherTick

SpecGmail == InitGmail /\ [][NextWatcher]_vars

\* Some statement of the poll cycle raises an exception other than the
\* ones above: check_for_updates itself (Gmail re-raises FileNotFoundError,
\* the ledger cannot be read), or create_action_file while it writes the
\* file, saves the ledger or logs.
CycleRaises ==
    /\ \/ /\ w_pc = "idle"
          /\ cycles < MaxCycles
          /\ cycles' = cycles + 1
          /\ items' = <<>>
          /\ idx' = 1
          /\ history' = Append(history,
                               [keys |-> {}, status |-> "aborted",
                                dry_run |-> w_dry_run])
       \/ /\ \/ w_pc = "loop" /\ idx <= Len(items)
             \/ w_pc \in {"record", "log"}
          /\ history' = SetStatus(history, "aborted")
          /\ UNCHANGED <<cycles, items, idx>>
    /\ w_pc' = Caught
    /\ UNCHANGED <<clock, logVars, w_kind, w_dry_run, surface, processed_ids,
                   last_cleanup, consecutive_errors, ledger_file,
                   needs_action, kills, fails, create_result, outsideWatcher>>

\* The watcher in continuous mode, never killed, with exceptions in its
\* cycles; its loop goes on for MaxCycles cycles.
NextWatcherRaises ==
    \/ WatcherStep(cycles < MaxCycles, BOOLEAN)
    \/ WatcherTick
    \/ CycleRaises

SpecGmailRaises ==
    /\ InitGmail
    /\ [][NextWatcherRaises]_vars
    /\ WF_vars(WatcherStep(cycles < MaxCycles, BOOLEAN))

SpecLinkedIn == InitLinkedIn /\ [][NextWatcher]_vars


----------------------------------------------------------------------------
(* linkedin_poster.py *)

MAX_POSTS_PER_RUN == 5

\* A file in Approved/ as the poster reads it: the frontmatter and the body
\* left after the first heading is stripped.
PostFile(type, status, body) ==
    [type |-> type, status |-> status, to |-> "", thread_id |-> "",
     approved_at |-> 0, created |-> 0, completed_at |-> 0, result |-> "",
     body |-> body]

PostFiles ==
    { PostFile("linkedin_post", "approved", "text"),
      PostFile("linkedin_post", "approved", ""),
      PostFile("linkedin_post", "pending", "text"),
      PostFile("email_send", "approved", "text") }

\* find_approved_posts: the *.md files of Approved/ whose frontmatter type
\* is linkedin_post, at most MAX_POSTS_PER_RUN of them.
RECURSIVE PostsFrom(_, _)
PostsFrom(dir, n) ==
    IF n > MaxFiles THEN <<>>
    ELSE (IF dir[n] # NoFile /\ dir[n].type = "linkedin_post"
          THEN <<n>> ELSE <<>>) \o PostsFrom(dir, n + 1)

find_approved_posts(dir) ==
    LET found == PostsFrom(dir, 1)
    IN  SubSeq(found, 1, Min(Len(found), MAX_POSTS_PER_RUN))

InitPoster ==
    /\ InitCommon
    /\ RetryOff
    /\ UnitsOff
    /\ DEV_MODE = TRUE
    /\ WatcherOff
    /\ p_pc = "idle"
    /\ p_dry_run \in BOOLEAN
    /\ p_dev_mode \in BOOLEAN
    /\ posts = <<>>
    /\ p_idx = 0
    /\ p_text = NoFile
    /\ p_cycles = 0
    /\ published = <<>>
    /\ p_writes = 0

outsidePoster == <<timeVars, lastFind, lastConsume, emailVars, watcherVars,
                   limiterVars, retryVars, unitVars>>

\* A human puts a file in Approved/ or rewrites one, between two runs of
\* the poster.
PosterHumanWrite(n, fm) ==
    /\ p_pc = "idle"
    /\ approved[n] # fm
    /\ p_writes < MaxWrites
    /\ p_writes' = p_writes + 1
    /\ approved' = [approved EXCEPT ![n] = fm]
    /\ UNCHANGED <<logVars, done, p_pc, p_dry_run, p_dev_mode, posts, p_idx,
                   p_text, p_cycles, published, outsidePoster>>

\* process_approved_posts up to its for loop: nothing to do without posts
\* or without a ready session.
PosterBegin(state) ==
    LET found == find_approved_posts(approved)
    IN  /\ p_pc = "idle"
        /\ p_cycles < MaxPosterRuns
        /\ p_cycles' = p_cycles + 1
        /\ IF found = <<>> \/ state # "ready"
           THEN UNCHANGED <<p_pc, posts, p_idx>>
           ELSE /\ p_pc' = "loop"
                /\ posts' = found
                /\ p_idx' = 1
        /\ UNCHANGED <<logVars, approved, done, p_dry_run, p_dev_mode, p_text,
                       published, p_writes, outsidePoster>>

\* One turn of the loop up to `await self.publish_post(post_text)`.
PosterLoop ==
    LET n == posts[p_idx]
    IN  /\ p_pc = "loop"
        /\ p_idx <= Len(posts)
        /\ IF approved[n] = NoFile
           THEN /\ errors_log' = log_action(errors_log,
                                    LogEntry("linkedin_poster", "error", "failure"))
                /\ p_idx' = p_idx + 1
                /\ UNCHANGED <<actions_log, p_pc, p_text>>
           ELSE IF approved[n].body = ""
           THEN /\ p_idx' = p_idx + 1
                /\ UNCHANGED <<logVars, p_pc, p_text>>
           ELSE IF p_dry_run
           THEN /\ actions_log' = log_action(actions_log,
                                    DryRunEntry("linkedin_poster", "linkedin_post"))
                /\ p_idx' = p_idx + 1
                /\ UNCHANGED <<errors_log, p_pc, p_text>>
           ELSE /\ p_pc' = "publishing"
                /\ p_text' = approved[n]
                /\ UNCHANGED <<logVars, p_idx>>
        /\ UNCHANGED <<approved, done, p_dry_run, p_dev_mode, posts, p_cycles,
                       published, p_writes, outsidePoster>>

\* How publish_post and the _move_to_done that follows a success end: the
\* post fails or raises; or it is published and the file is stamped and
\* moved ("ok"), update_frontmatter raises ("stamp_fails"), or shutil.move
\* raises after the stamp ("move_fails").
PublishOutcomes == {"ok", "fail", "raise", "stamp_fails", "move_fails"}

Posted(outcome) == outcome \in {"ok", "stamp_fails", "move_fails"}

\* publish_post returns or raises; on success _move_to_done stamps the file
\* and moves it, and the audit entry is written; an exception of either
\* step is caught by the loop and logged.
PosterPublish(outcome) ==
    LET n == posts[p_idx]
        stamped == Stamp(approved[n],
                         [status |-> "done", completed_at |-> clock,
                          result |-> "success"])
    IN  /\ p_pc = "publishing"
        /\ p_dev_mode => Posted(outcome)
        /\ p_pc' = "loop"
        /\ p_idx' = p_idx + 1
        /\ p_text' = NoFile
        /\ published' = IF Posted(outcome) /\ ~p_dev_mode
                        THEN Append(published,
                                    [name |-> n, fm |-> p_text,
                                     writes |-> p_writes])
                        ELSE published
        /\ IF outcome = "ok" /\ approved[n] # NoFile
           THEN /\ done' = [done EXCEPT ![n] = stamped]
                /\ approved' = [approved EXCEPT ![n] = NoFile]
                /\ actions_log' = log_action(actions_log,
                                     SuccessEntry("linkedin_poster", "linkedin_post"))
                /\ UNCHANGED errors_log
           ELSE /\ errors_log' = log_action(errors_log,
                                    LogEntry("linkedin_poster", "error", "failure"))
                /\ approved' = IF outcome = "move_fails" /\ approved[n] # NoFile
                               THEN [approved EXCEPT ![n] = stamped]
                               ELSE approved
                /\ UNCHANGED <<actions_log, done>>
        /\ UNCHANGED <<p_dry_run, p_dev_mode, posts, p_cycles, p_writes,
                       outsidePoster>>

\* The for loop is exhausted: process_approved_posts returns.
PosterEnd ==
    /\ p_pc = "loop"
    /\ p_idx > Len(posts)
    /\ p_pc' = "idle"
    /\ UNCHANGED <<logVars, approved, done, p_dry_run, p_dev_mode, posts, p_idx,
                   p_text, p_cycles, published, p_writes, outsidePoster>>

NextPoster ==
    \/ \E n \in FileNames, fm \in PostFiles : PosterHumanWrite(n, fm)
    \/ \E state \in {"ready", "login_required"} : PosterBegin(state)
    \/ PosterLoop
    \/ \E outcome \in PublishOutcomes : PosterPublish(outcome)
    \/ PosterEnd

SpecPoster == InitPoster /\ [][NextPoster]_vars

----------------------------------------------------------------------------
(* The watcher under kills, with the scheduling the claims on recovery      *)
(* assume: a live process takes its next step, a killed one is restarted.   *)

\* Every candidate the extractor yields has a completely written file.
AllFiled ==
    \A i \in 1..Len(surface) :
        surface[i].wanted =>
            \E f \in needs_action : f.key = surface[i].key /\ f.complete

\* Poll cycles enough for every candidate in every run, one per cycle and
\* one more lost to a file name left behind by the run before.
CycleCap == (MaxKills + 1) * (MaxItems + 1)

\* The endless loop is followed until every candidate has its file, which
\* no later step undoes, and no further than CycleCap cycles.
FollowLoop == ~AllFiled /\ cycles < CycleCap

InitGmailLive ==
    /\ InitGmail
    /\ w_dry_run = FALSE

NextWatcherLive ==
    \/ WatcherStep(FollowLoop, {TRUE})
    \/ \E torn \in BOOLEAN : Kill(torn)
    \/ Restart(FALSE)
    \/ WatcherTick

SpecGmailLive ==
    /\ InitGmailLive
    /\ [][NextWatcherLive]_vars
    /\ WF_vars(WatcherStep(FollowLoop, {TRUE}))
    /\ WF_vars(Restart(FALSE))

\* The Gmail watcher configured with a page size below the number of
\* messages the query matches, under the same scheduling.
InitGmailCapped ==
    /\ InitCommon
    /\ RetryOff
    /\ UnitsOff
    /\ DEV_MODE = TRUE
    /\ WatcherStarted("gmail")
    /\ w_dry_run = FALSE
    /\ w_max_results = SmallPage
    /\ PosterOff

SpecGmailCapped ==
    /\ InitGmailCapped
    /\ [][NextWatcherLive]_vars
    /\ WF_vars(WatcherStep(FollowLoop, {TRUE}))
    /\ WF_vars(Restart(FALSE))

\* The watcher sleeps through more than the retention period of its ledger
\* (the machine is suspended, or nothing arrives for a month of polls).
LongSleep ==
    /\ w_pc = "idle"
    /\ cycles > 0
    /\ Tick(RetentionDays(w_kind) * 24 * 3600 + 1)

NextGmailAged == NextWatcher \/ LongSleep

SpecGmailAged == InitGmail /\ [][NextGmailAged]_vars

----------------------------------------------------------------------------
(* A watcher or the poster, started in either mode. *)

InitDryRun == InitGmail \/ InitPoster

NextDryRun == NextWatcher \/ NextPoster

SpecDryRun == InitDryRun /\ [][NextDryRun]_vars

----------------------------------------------------------------------------
(* Claims on the email tools *)

\* A frontmatter that licenses the tool call: the tool's type, status
\* exactly "approved", and the recipient / thread id of the call.
Licenses(fm, tool, target) ==
    /\ fm # NoFile
    /\ fm.type = (IF tool = "send_email" THEN "email_send" ELSE "email_reply")
    /\ fm.status = "approved"
    /\ Lower(IF tool = "send_email" THEN fm.to ELSE fm.thread_id) = Lower(target)

\* C1: with dev mode off, the external send happens only for a call whose
\* find_approval returned a file of the tool's type, with status exactly
\* "approved" and the call's recipient / thread id; a call for which no
\* such file exists is reported rejected and sends nothing.
C1_SendOnlyWhenApproved ==
    /\ \A i \in 1..Len(gmail_sent) :
          /\ ~DEV_MODE
          /\ Licenses(gmail_sent[i].approval, gmail_sent[i].tool,
                      gmail_sent[i].target)
    /\ \A c \in Callers :
          /\ calls[c].pc = "sending" =>
                /\ calls[c].had_match
                /\ Licenses(calls[c].fm, calls[c].tool, calls[c].target)
    /\ (~DEV_MODE /\ ret.tag \notin {"none", "invalid"} /\ ~ret.had_match)
          => ret.tag = "rejected"

\* One call has sent on a case-insensitive recipient match, and a later one
\* was rejected while a pending file for its recipient sat in Approved/.
C1_Witness ==
    /\ ~DEV_MODE
    /\ \E i \in 1..Len(gmail_sent) :
          /\ gmail_sent[i].tool = "send_email"
          /\ gmail_sent[i].approval.to # gmail_sent[i].target
    /\ ret.tag = "rejected"
    /\ ret.tool = "send_email"
    /\ \E n \in FileNames :
          /\ approved[n] # NoFile
          /\ approved[n].type = "email_send"
          /\ approved[n].status = "pending"
          /\ Lower(approved[n].to) = ret.target

----------------------------------------------------------------------------
(* Claims on the poster *)

\* C2: the poster publishes a file from Approved/ only if its status is
\* exactly "approved"; a linkedin_post file with any other status is never
\* published and never moved to Done/.
C2_OnlyApprovedPublished ==
    /\ \A i \in 1..Len(published) : published[i].fm.status = "approved"
    /\ p_pc = "publishing" => p_text.status = "approved"

----------------------------------------------------------------------------
(* Claims on the watchers *)

\* The work-item files of fingerprint k written in the poll cycles cs.
FilesFor(k, cs) == { f \in needs_action : f.key = k /\ f.cycle \in cs }

C4_NoSecondWorkItem ==
    ~(create_result.tag = "created" /\ create_result.in_ledger)

\* C5: a fingerprint is in the ledger file only after its work-item file
\* has been completely written, whatever step a kill interrupts.
C5_LedgerAfterFile ==
    /\ [](\A k \in PersistedIds :
             \E f \in needs_action : f.key = k /\ f.complete)
    /\ [][\A k \in PersistedIds' \ PersistedIds :
             \E f \in needs_action : f.key = k /\ f.complete]_vars

\* A kill has torn the file of one fingerprint while another fingerprint
\* is in the ledger.
C5_Witness ==
    /\ kills > 0
    /\ PersistedIds # {}
    /\ \E f \in needs_action : ~f.complete /\ f.key \notin PersistedIds

\* C6: after a kill at any point of a poll cycle and a restart, every
\* candidate the extractor keeps yielding eventually has a work-item file.
C6_NothingDropped == (w_pc = "dead") ~> AllFiled

\* Every candidate has its file although the process was killed while it
\* was writing one of them and again while saving the ledger.
C6_Witness ==
    /\ kills > 0
    /\ AllFiled
    /\ \E f \in needs_action : ~f.complete
    /\ \E i \in 1..Len(surface) : surface[i].wanted

C7_PosterSeen ==
    /\ p_dry_run
    /\ p_pc = "idle"
    /\ p_cycles > 0
    /\ \E j \in 1..Len(actions_log) : actions_log[j].actor = "linkedin_poster"
    /\ \E n \in FileNames : approved[n] # NoFile /\ approved[n].body # ""

\* C8: no create_action_file call of a run finds its path taken by an
\* earlier item of the same run, so no creation fails or overwrites.
C8_NoCollision ==
    ~(create_result.tag = "FileExistsError" /\ create_result.same_run)

----------------------------------------------------------------------------
(* Claims on consumption and Done/ *)

\* C11: after an approval has been consumed (consume_approval, or the
\* poster's move to Done/), the file is no longer in Approved/ and is in
\* Done/ with status done and with completed_at and result set.
C11_ConsumedIsDone ==
    [][\A n \in FileNames :
          (approved[n] # NoFile /\ approved'[n] = NoFile) =>
              /\ done'[n] # NoFile
              /\ done'[n].status = "done"
              /\ done'[n].completed_at # 0
              /\ done'[n].result # ""]_vars

\* C12: once a file is in Done/ no later actor operation moves, replaces
\* or modifies it, the consumption of another approval file of the same
\* name included.
C12_DoneIsFinal ==
    [][\A n \in FileNames : done[n] # NoFile => done'[n] = done[n]]_vars

----------------------------------------------------------------------------
(* Claims on dev mode *)

\* C13: with dev_mode on, an actor asked to perform an effect logs the
\* intended effect and reports success without calling the external
\* collaborator and without stamping or moving any approval file.
C13_DevModeConsumesNothing ==
    [][ /\ (DEV_MODE /\ ncalls' = ncalls + 1 /\ ret'.tag # "invalid") =>
              /\ ret'.tag = "dev_mode"
              /\ Len(actions_log') = Len(actions_log) + 1
              /\ actions_log'[Len(actions_log')].result = "dev_mode"
              /\ UNCHANGED <<gmail_sent, approved, done>>
        /\ (p_dev_mode /\ p_pc # "off") =>
              /\ UNCHANGED <<published, done>>
              /\ \A n \in FileNames :
                    approved[n] # NoFile => approved'[n] # NoFile
      ]_vars

----------------------------------------------------------------------------
(* Claims on the rate limiter *)

\* The sends recorded before the latest check() number exactly max_sends.
FullyUsed == last_check.called /\ Len(last_check.before) = max_sends

\* C14: after exactly max_sends sends recorded within the window, check()
\* returns (False, w) with w >= 1; once time has advanced past the window
\* for the oldest recorded send, check() returns (True, 0).
C14_DeniedThenAllowed ==
    /\ ( /\ FullyUsed
         /\ \A i \in 1..max_sends :
               time_time - last_check.before[i] <= Window )
       => (~last_check.allowed /\ last_check.wait >= 1)
    /\ ( /\ FullyUsed
         /\ time_time - last_check.before[1] > Window )
       => (last_check.allowed /\ last_check.wait = 0)

\* A check() denied exactly at the window's edge of the oldest send, the
\* limit having been used up.
C14_Witness ==
    /\ FullyUsed
    /\ time_time - last_check.before[1] = Window
    /\ ~last_check.allowed

\* A check() allowed again just past the window of the oldest send.
C14_Allowed ==
    /\ FullyUsed
    /\ time_time - last_check.before[1] = Window + 1
    /\ last_check.allowed

\* The time until the oldest timestamp held reaches the window's edge, in
\* 1/Resolution seconds, at the latest check().
Remaining == Head(send_timestamps) + Window - time_time

\* C15 as stated: a denied check() returns the time until the oldest
\* timestamp leaves the window, rounded up to whole seconds, at least 1.
C15_WaitIsCeiling ==
    (last_check.called /\ ~last_check.allowed) =>
        last_check.wait = Max(CeilSeconds(Remaining), 1)

\* C15, amended: a denied check() returns the whole seconds of that time
\* plus one, which is the round-up when the time is not a whole number of
\* seconds and one second more when it is; it is at least 1.
C15_WaitIsWholePlusOne ==
    (last_check.called /\ ~last_check.allowed) =>
        /\ last_check.wait = (Remaining \div Resolution) + 1
        /\ last_check.wait >= 1
        /\ Remaining % Resolution # 0 =>
              last_check.wait = CeilSeconds(Remaining)
        /\ Remaining % Resolution = 0 =>
              last_check.wait = CeilSeconds(Remaining) + 1

\* A check() denied a part of a second after the oldest send: the remaining
\* time is not a whole number of seconds.
C15_Witness ==
    /\ last_check.called
    /\ ~last_check.allowed
    /\ Remaining % Resolution # 0
    /\ Remaining > Resolution

\* C16: record_send() is called only after the external send has succeeded:
\* a timestamp enters the limiter only in the step in which a send
\* completes, and a failed or rejected call adds none.
C16_RecordAfterSend ==
    /\ [](Len(send_timestamps) <= Len(gmail_sent))
    /\ [][ /\ Len(send_timestamps') > Len(send_timestamps) =>
                /\ gmail_sent' # gmail_sent
                /\ SubSeq(gmail_sent', 1, Len(gmail_sent)) = gmail_sent
                /\ send_timestamps' = Append(send_timestamps, time_time)
          /\ gmail_sent' = gmail_sent =>
                \E k \in 0..Len(send_timestamps) :
                   send_timestamps' =
                      SubSeq(send_timestamps, k + 1, Len(send_timestamps))
        ]_vars

\* One call has sent and been recorded, another one that passed the checks
\* with it has failed with an HTTP error and left no timestamp.
C16_Witness ==
    /\ ret.tag = "http_error"
    /\ Len(gmail_sent) = 1
    /\ Len(send_timestamps) = 1
    /\ ncalls = 2

----------------------------------------------------------------------------
(* Claims on the retry wrappers *)

\* The statuses the retry contract calls retryable.
RetryableStatuses == {"429", "500", "503"}

\* The HTTP statuses of the scenarios that the contract does not retry.
FatalStatuses == {"403", "404"}

\* The wrapped call fails with a retryable status exactly n times and then
\* succeeds.
FailsThenSucceeds(n) ==
    /\ \A i \in 1..n : r_script[i] \in RetryableStatuses
    /\ r_script[n + 1] = "ok"

\* C17: a call that fails with a retryable status exactly N times and then
\* succeeds, N within the wrapper's MAX_RETRIES attempts, is retried exactly
\* N times and returns the success value; a call that fails with a
\* non-retryable status is not retried at all.
C17_RetriedExactlyN ==
    r_pc = "done" =>
        /\ \A n \in 0..(MAX_RETRIES - 1) :
              FailsThenSucceeds(n) =>
                  /\ r_calls = n + 1
                  /\ r_result = Returned("success")
        /\ r_script[1] \in FatalStatuses =>
              /\ r_calls = 1
              /\ r_result = Raised(r_script[1])

\* C18: on a 401 the wrapper drops the cached credential and
\* re-authenticates before retrying, and the re-authentication uses up no
\* attempt: after one 401 the call still has MAX_RETRIES attempts for
\* retryable errors.
C18_ReauthIsFree ==
    r_pc = "done" =>
        \A n \in 0..(MAX_RETRIES - 1) :
            ( /\ r_script[1] = "401"
              /\ \A i \in 2..(n + 1) : r_script[i] \in RetryableStatuses
              /\ r_script[n + 2] = "ok" )
            => /\ r_reauths = 1
               /\ r_calls = n + 2
               /\ r_result = Returned("success")

\* C19: in either wrapper an HTTP error whose status is not 401, 429, 500
\* or 503 is propagated at once: the wrapped call is not invoked again and
\* no backoff delay is taken.
C19_FatalPropagates ==
    [][ ( /\ r_pc = "loop"
          /\ r_attempt < MAX_RETRIES
          /\ r_script[r_calls + 1] \in FatalStatuses
          /\ r_calls' # r_calls )
        => /\ r_pc' = "done"
           /\ r_result' = Raised(r_script[r_calls + 1])
           /\ r_sleeps' = r_sleeps
      ]_vars

\* Every invocation the wrapper has made has failed.
AllFailed == \A i \in 1..r_calls : r_script[i] # "ok"

\* C20: when every attempt has failed the wrapper raises the last error it
\* observed (the wrapped call's, or the one of the re-authentication that
\* followed it); it never returns a value.
C20_ExhaustionRaises ==
    (r_pc = "done" /\ AllFailed) =>
        /\ r_result.kind = "raised"
        /\ r_result.value =
              (IF r_script[r_calls] = "401_noauth" THEN "FileNotFoundError"
               ELSE Status(r_script[r_calls]))

\* All MAX_RETRIES attempts have failed, with different errors, and the
\* wrapper has raised.
C20_Witness ==
    /\ r_pc = "done"
    /\ r_calls = MAX_RETRIES
    /\ AllFailed
    /\ r_script[1] = "network"
    /\ r_script[2] = "401"
    /\ r_script[MAX_RETRIES] = "503"
    /\ r_result = Raised("503")

\* C35: whatever the wrapped call does on its successive invocations (401,
\* 429 / 500 / 503, connection or timeout errors, in any mix), one call of a
\* retry wrapper invokes it MAX_RETRIES (3) times at most and then returns
\* or raises.
C35_BoundedRetries ==
    /\ [](r_calls <= MAX_RETRIES)
    /\ <>(r_pc = "done" /\ r_result # NoResult)

\* Three invocations have failed, with a 401, a network error and a 429,
\* and the wrapper has given up.
C35_Witness ==
    /\ r_pc = "done"
    /\ r_calls = MAX_RETRIES
    /\ r_script[1] = "401"
    /\ r_script[2] = "network"
    /\ r_script[3] = "429"
    /\ r_result = Raised("429")

----------------------------------------------------------------------------
(* Claims on what the email tools return *)

\* C21: every email tool call returns a status string whatever the Gmail
\* collaborator and the workspace do, retries exhausted on connection or
\* timeout errors included: no exception escapes the tool.
C21_NoExceptionEscapes == ret.tag # "raised"

----------------------------------------------------------------------------
(* Claims on priority classification *)

\* The keywords of the list, of one tier, that the text contains.
Present(tier) ==
    { j \in 1..Len(k_keywords) :
        /\ Contains(k_text, k_keywords[j])
        /\ Lower(k_keywords[j]) \in tier }

\* C22: for a text that contains both a high-tier and a medium-tier keyword
\* the classification is high, with the first high-tier keyword of the
\* keyword list that the text contains, whichever comes first in the text.
C22_HighBeatsMedium ==
    ( /\ k_result # NoResult
      /\ Present(HIGH_PRIORITY_KEYWORDS(k_kind)) # {}
      /\ Present(MEDIUM_PRIORITY_KEYWORDS(k_kind)) # {} )
    => /\ k_result.priority = "high"
       /\ \E j \in Present(HIGH_PRIORITY_KEYWORDS(k_kind)) :
             /\ k_result.keyword = k_keywords[j]
             /\ \A i \in Present(HIGH_PRIORITY_KEYWORDS(k_kind)) : j <= i

----------------------------------------------------------------------------
(* Claims on the browser watchers' poll cycle *)

\* C23: a poll cycle that finds the session in one of its error states
\* (login_required or captcha on LinkedIn, qr_code or phone_disconnected on
\* WhatsApp) writes an error entry and returns no item.
C23_SessionErrorEndsCycle ==
    ( /\ b_pc = "done"
      /\ \E i \in 1..Len(b_states) :
            b_states[i].state \in SessionErrors(b_kind) )
    => /\ \E j \in 1..Len(errors_log) :
             errors_log[j].error \in SessionErrors(b_kind)
       /\ b_items = <<>>

\* The scan that loaded the present page, and the state it found.
LastScan == b_states[Len(b_states)]

\* C24: on a page that shows the QR-code login canvas and no chat list the
\* WhatsApp detector returns qr_code, never ready.
C24_QrPageIsNotReady ==
    ( /\ b_kind = "whatsapp"
      /\ b_states # <<>>
      /\ "qr_canvas" \in b_page.features
      /\ "chat_list" \notin b_page.features )
    => LastScan.state = "qr_code"

\* C25: a field of a card that cannot be read aborts neither the card nor
\* the scan: every card whose text holds a keyword yields an item, with the
\* field left empty (the sender, at its default) when it could not be read.
C25_FieldFailureKeepsItem ==
    ( /\ b_states # <<>>
      /\ Scans(b_kind, LastScan.state) )
    => \A i \in 1..Len(b_page.cards) :
          b_page.cards[i].kw =>
              \E j \in 1..Len(b_items) :
                  /\ b_items[j].scan = LastScan.scan
                  /\ b_items[j].card = i
                  /\ b_items[j].time =
                        (IF b_page.cards[i].time = "ok" THEN "time" ELSE "")
                  /\ b_items[j].sender =
                        (IF b_page.cards[i].sender = "ok" THEN "name"
                         ELSE DefaultSender(LastScan.scan))

----------------------------------------------------------------------------
(* Claims on the scan cap and the ledger *)

\* The entry at position i of the surface matches, is not in the ledger,
\* and the cycle under way has not returned it because it lies beyond the
\* cap of the scan.
CutOff(i) ==
    /\ w_pc = "loop"
    /\ i > ScanCap(w_kind)
    /\ surface[i].wanted
    /\ processed_ids[surface[i].key] = 0
    /\ surface[i].key \notin history[Len(history)].keys

\* Some poll cycle has returned the entry at position i.
Emitted(i) ==
    \E c \in 1..Len(history) : surface[i].key \in history[c].keys

\* C26: a matching, unprocessed entry that the cap of one poll cycle cut
\* off is returned by a later poll cycle, as long as it stays listed.
C26_CutOffIsEmittedLater ==
    \A i \in 1..MaxItems : CutOff(i) ~> Emitted(i)

\* C27: every poll cycle starts from the ledger as its file holds it, and
\* ends with the file holding the ledger as the cycle leaves it, the
\* insertions after a write and the removals of the daily prune alike.
C27_LedgerReloadedAndSaved ==
    [][ /\ (w_pc = "idle" /\ w_pc' = "loop") =>
              processed_ids' =
                  _cleanup_old_ids(w_kind,
                                   _load_processed_ids(ledger_file).processed_ids,
                                   _load_processed_ids(ledger_file).last_cleanup,
                                   clock).processed_ids
        /\ (w_pc \in {"loop", "sleep"} /\ w_pc' = "idle") =>
              _load_processed_ids(ledger_file').processed_ids = processed_ids'
      ]_vars

----------------------------------------------------------------------------
(* Claims on concurrent tool calls *)

\* The sends performed in the window that ends with send i.
SendsInWindow(i) ==
    { j \in 1..Len(gmail_sent) :
        /\ gmail_sent[j].at <= gmail_sent[i].at
        /\ gmail_sent[j].at > gmail_sent[i].at - Window }

\* C28: however send_email and reply_email calls interleave, no window of
\* window_seconds holds more than max_sends sends performed.
C28_WindowNeverExceeded ==
    \A i \in 1..Len(gmail_sent) : Cardinality(SendsInWindow(i)) <= max_sends

\* C29: an approval file authorizes one send at most: no send is performed
\* on a file that has left Approved/ because an earlier send, authorized by
\* the same file, consumed it.
C29_OneSendPerApproval ==
    [][ Len(gmail_sent') > Len(gmail_sent) =>
            LET sent == gmail_sent'[Len(gmail_sent')]
            IN  ~ /\ approved[sent.path] = NoFile
                  /\ \E i \in 1..Len(gmail_sent) :
                        /\ gmail_sent[i].path = sent.path
                        /\ gmail_sent[i].approval = sent.approval
      ]_vars

----------------------------------------------------------------------------
(* Claims on publishing *)

\* C30: a post file is published once at most: a file that has been
\* published is not published again by a later run, which no human write
\* separates from the first, whether or not stamping and moving it
\* succeeded.
C30_PublishedOnce ==
    [][ Len(published') > Len(published) =>
            LET new == published'[Len(published')]
            IN  \A i \in 1..Len(published) :
                   ~ /\ published[i].name = new.name
                     /\ published[i].writes = new.writes
      ]_vars

----------------------------------------------------------------------------
(* Claims on the email tools and the audit log *)

\* C31: a send_email or reply_email call that ends without the send having
\* been performed (invalid input, no approval, rate limit, the send
\* raising) leaves every file of Approved/ where and as it is.
C31_FailedCallKeepsApprovals ==
    [][ (ncalls' # ncalls \/ calls' # calls) /\ gmail_sent' = gmail_sent
            => approved' = approved /\ done' = done
      ]_vars

\* A send has failed on an approval that is still in Approved/, unchanged
\* and matching the call.
C31_Witness ==
    /\ ret.tag = "http_error"
    /\ find_approval(approved, ActionType(ret.tool),
                     MatchFields(ret.tool, ret.target)) # NoPath
    /\ gmail_sent = <<>>

\* C32: the day's audit log is append-only whichever way the log_action
\* calls of the processes interleave: every step leaves the entries of the
\* file in place and in order, and a log_action call adds its entry behind
\* them.
C32_LogIsAppendOnly ==
    [][ /\ Len(actions_log') >= Len(actions_log)
        /\ SubSeq(actions_log', 1, Len(actions_log)) = actions_log
      ]_vars

----------------------------------------------------------------------------
(* Claims on the watcher's recovery and its poll loop *)

\* C33: a kill during a save of the ledger loses no fingerprint that an
\* earlier save had persisted: what is loaded from the file after the kill
\* holds every fingerprint that was loaded from it before.
C33_KillKeepsPersistedIds ==
    [][ w_pc # "dead" /\ w_pc' = "dead" =>
            \A k \in Keys :
                _load_processed_ids(ledger_file).processed_ids[k] # 0 =>
                    _load_processed_ids(ledger_file').processed_ids[k] # 0
      ]_vars

\* C34: once the page or the context of a browser watcher has died, a
\* later poll cycle closes the session and launches a new one.
C34_DeadSessionIsReplaced == (s_handle = "dead") ~> (s_handle = "live")

----------------------------------------------------------------------------
(* Claims on session detection and extraction strategies *)

\* The rules of LinkedIn's session detection in the order of the contract,
\* on a page none of whose lookups fails.
RuleOrder(page) ==
    IF "checkpoint_url" \in page.features THEN "captcha"
    ELSE IF "login_url" \in page.features \/ "authwall_url" \in page.features
         THEN "login_required"
    ELSE IF "captcha_dom" \in page.features THEN "captcha"
    ELSE IF "login_form" \in page.features THEN "login_required"
    ELSE IF /\ "family_url" \in page.features
            /\ \/ "strict_selector" \in page.features
               \/ page.total > 40
         THEN "ready"
    ELSE "unknown"

\* C36: LinkedIn's session detection returns the result of the first rule
\* that applies: challenge URL, login or authwall URL, the captcha element,
\* a login-form element, then a signed-in URL with a strict selector or
\* more than 40 buttons, links and images, else unknown; the element count
\* decides only where every earlier rule has failed.
C36_FirstRuleDecides ==
    ( /\ b_kind = "linkedin"
      /\ b_pc = "detected"
      /\ b_page.raising = {} )
    => LastScan.state = RuleOrder(b_page)

\* A signed-in page told by the element count alone, one element over the
\* threshold.
C36_Witness ==
    /\ b_kind = "linkedin"
    /\ b_pc = "detected"
    /\ b_page.raising = {}
    /\ b_page.features = {"family_url"}
    /\ b_page.total = 41
    /\ LastScan.state = "ready"

\* The page as it is when the lookups that fail find nothing.
NotMatched(page) ==
    [page EXCEPT !.features = @ \ page.raising,
                 !.total = IF "count" \in page.raising THEN 0 ELSE @,
                 !.raising = {}]

\* C37: a lookup that raises during session detection counts as not
\* matched: the detector, LinkedIn's and WhatsApp's alike, returns one of
\* its states and lets no exception out.
C37_LookupFailureIsNoMatch ==
    b_pc = "detected" =>
        /\ LastScan.state # "raised"
        /\ b_kind = "linkedin" => LastScan.state = LinkedInState(NotMatched(b_page))

\* The selector at position i returns at least one element and 50 at most.
InRange(i) ==
    /\ ~x_probes[i].raises
    /\ x_probes[i].count >= 1
    /\ x_probes[i].count <= 50

\* C38: for the notification list and for the message-thread list alike,
\* the scan uses the first selector in list order that matches at least one
\* element and 50 at most; a selector that matches more than 50 is passed
\* over as too broad.
C38_FirstStrategyInRange ==
    x_used.chosen =>
        IF \E i \in 1..Len(x_probes) : InRange(i)
        THEN /\ x_used.used \in 1..Len(x_probes)
             /\ InRange(x_used.used)
             /\ \A j \in 1..(x_used.used - 1) : ~InRange(j)
        ELSE x_used.used = 0

----------------------------------------------------------------------------
(* Claims on the poll loop *)

\* The poll cycle c has been ended by an exception.
Aborted(c) == Len(history) = c /\ history[c].status = "aborted"

\* C39: in continuous mode an exception raised anywhere in a poll cycle
\* does not stop the watcher: after the sleep the next cycle starts.
C39_LoopSurvivesException ==
    \A c \in 1..(MaxCycles - 1) : Aborted(c) ~> (Len(history) > c)

\* A cycle that an exception ended has been followed by a complete one.
C39_Witness ==
    /\ Len(history) = 2
    /\ history[1].status = "aborted"
    /\ history[2].status = "complete"
    /\ w_pc = "idle"

\* The cycle under way has written a complete file for the item at
\* position j of the list check_for_updates returned.
WrittenThisCycle(j) ==
    \E f \in needs_action :
        /\ f.key = items[j].key
        /\ f.cycle = cycles
        /\ f.run = kills
        /\ f.complete

\* C40: when writing the work item of one candidate fails, the candidates
\* behind it are still written in that poll cycle: at the end of a cycle
\* that was not a dry run and in which the file of one item could not be
\* written, every item behind that one has its file.
C40_RestStillWritten ==
    [][ ( /\ w_pc = "sleep"
          /\ w_pc' = "idle"
          /\ ~w_dry_run
          /\ idx \in 1..Len(items)
          /\ ~WrittenThisCycle(idx) )
        => \A j \in (idx + 1)..Len(items) : WrittenThisCycle(j)
      ]_vars

====
